---- MODULE Spec2Model ----
(***************************************************************************)
(* Model of vxdraw's dynamic-texture layers (src/src/dyntex.rs): the       *)
(* per-layer host buffer of sprite records ("mockbuffer"), the free list   *)
(* of released slots ("removed"), the collection of layers ("dyntexs")     *)
(* and the draw-order list.                                                *)
(*                                                                         *)
(* The host buffer is a flat sequence of 4-byte words; a vertex is 10      *)
(* words (40 bytes) and a sprite 4 vertices (160 bytes).  f32 values are   *)
(* modelled by integers, and transmute::<f32,[u8;4]> by the word holding   *)
(* that value.  Handle and Layer are neither Clone nor Copy in the source, *)
(* so the client owns each handle once: "handles" and "layers" hold what   *)
(* the client owns, and the consuming calls take a handle out.             *)
(* The field gen of a layer and of a handle is a history value (the        *)
(* number of the add_layer call that made the layer); no action reads it   *)
(* to decide what to do.                                                   *)
(***************************************************************************)
EXTENDS Integers, Sequences, FiniteSets, Bags, TLC

VARIABLES dyntexs, draw_order, gpu, layers, handles, ret, panicked, nlayers, nadds, nsets

\* the frame: the streaming-texture layers, the attribute streams of every layer,
\* the fields of VxDraw that draw_frame uses, the GPU's queue, the place of the
\* draw_frame call in progress and what it has done
VARIABLES strtexs, streams, current_frame, max_frames_in_flight, resized_since_last_render,
          frames_in_flight_fences, submitted, pc, recorded, call, nframes, nrestarts, ntouch,
          perspective, debtris, swapchain

arena_vars == <<handles, nadds, nsets>>

frame_vars == <<strtexs, streams, current_frame, max_frames_in_flight, resized_since_last_render,
                frames_in_flight_fences, submitted, pc, recorded, call, nframes, nrestarts, ntouch,
                perspective, debtris, swapchain>>

vars == <<dyntexs, draw_order, gpu, layers, handles, ret, panicked, nlayers, nadds, nsets,
          strtexs, streams, current_frame, max_frames_in_flight, resized_since_last_render,
          frames_in_flight_fences, submitted, pc, recorded, call, nframes, nrestarts, ntouch,
          perspective, debtris, swapchain>>

\* ---- bounds of the exploration ----
MaxAddLayer == 3
MaxAdds == 3
MaxSetCalls == 2
MaxFramesInFlight == 2
MaxFrames == 2
MaxRestarts == 1
MaxTouch == 1
MaxFrameLayers == 2

\* ---- layout of the host buffer ----
WordBytes == 4
VertexBytes == 40
SpriteBytes == 160

\* ---- inputs ----
NoPerspective == "None"

\* matrices: Matrix4::identity(), the perspectives set_perspective is called
\* with, and the one a layer is made with
Identity == "identity"
Perspectives == {Identity, "m1"}
FixedPerspectives == {"m2"}

\* the options of the claims about the perspective: without and with a fixed one
ViewOptions ==
  {[depth_test |-> TRUE, fixed_perspective |-> fixed] : fixed \in {NoPerspective} \cup FixedPerspectives}

LayerOptionsSet == {[depth_test |-> TRUE, fixed_perspective |-> NoPerspective]}

SpriteDefault ==
  [width |-> 2, height |-> 2, depth |-> 0,
   colors |-> << <<0, 0, 0, 255>>, <<0, 0, 0, 255>>, <<0, 0, 0, 255>>, <<0, 0, 0, 255>> >>,
   uv_begin |-> <<0, 0>>, uv_end |-> <<1, 1>>,
   translation |-> <<0, 0>>, rotation |-> 0, scale |-> 1, origin |-> <<0, 0>>]

SpriteOther ==
  [width |-> 4, height |-> 2, depth |-> 1,
   colors |-> << <<1, 0, 0, 255>>, <<0, 1, 0, 255>>, <<0, 0, 1, 255>>, <<1, 1, 1, 255>> >>,
   uv_begin |-> <<0, 0>>, uv_end |-> <<2, 3>>,
   translation |-> <<3, 5>>, rotation |-> 2, scale |-> 2, origin |-> <<1, 0>>]

Sprites == {SpriteOther}

Positions == {<<7, 8>>}
Rotations == {9}
UvRects == {<<<<4, 5>>, <<6, 7>>>>}

\* sprites and rectangles for the claims about the fields of a record: both
\* sprites, and with the other rectangles those the sprites are made with
AnySprite == {SpriteDefault, SpriteOther}
OwnUvRects == {<<sprite.uv_begin, sprite.uv_end>> : sprite \in AnySprite}
Translations == {<<1, 2>>}
RotationDeltas == {3}

\* ---- words and slices of the host buffer ----
ByteLen(buf) == Len(buf) * WordBytes

\* transmute::<(u8, u8, u8, u8), [u8; 4]>: the word is the four bytes, in order
ColorWord(c) == <<c[1], c[2], c[3], c[4]>>

\* buf[lo..lo + 4] is a valid slice
InRange(buf, lo) == lo + WordBytes <= ByteLen(buf)

\* buf[lo..lo + 4].copy_from_slice(word)
WriteWord(buf, lo, w) == [buf EXCEPT ![(lo \div WordBytes) + 1] = w]

ZeroSprite == [i \in 1..(SpriteBytes \div WordBytes) |-> 0]

\* Grow with the loop test "<" for "<=": the buffer is not extended when its length
\* is exactly the offset of the new slot
RECURSIVE GrowStrict(_, _)
GrowStrict(buf, idx) ==
  IF ByteLen(buf) < idx THEN GrowStrict(buf \o ZeroSprite, idx) ELSE buf

\* while tex.mockbuffer.len() <= idx { extend by one zeroed sprite }
RECURSIVE Grow(_, _)
Grow(buf, idx) ==
  IF ByteLen(buf) <= idx THEN Grow(buf \o ZeroSprite, idx) ELSE buf

\* a sequence of (offset, word) writes, applied in order; the first slice that
\* is out of range panics and leaves the writes before it in place
RECURSIVE WriteAll(_, _)
WriteAll(buf, ws) ==
  IF ws = <<>> THEN [buf |-> buf, ok |-> TRUE]
  ELSE IF ~InRange(buf, ws[1][1]) THEN [buf |-> buf, ok |-> FALSE]
  ELSE WriteAll(WriteWord(buf, ws[1][1], ws[1][2]), Tail(ws))


\* ---- the collection of layers ----
\* Vec::get / Vec::get_mut: Some exactly when the index is below the length
HasLayer(id) == id < Len(dyntexs)

Tex(id) == dyntexs[id + 1]

NewTexture(options, g) ==
  [hidden |-> FALSE, count |-> 0, fixed_perspective |-> options.fixed_perspective,
   mockbuffer |-> <<>>, removed |-> <<>>, gen |-> g]

DynamicTexture(id) == [kind |-> "DynamicTexture", id |-> id]

AddLayer(options) ==
  /\ ~panicked
  /\ nlayers < MaxAddLayer
  /\ dyntexs' = Append(dyntexs, NewTexture(options, nlayers + 1))
  /\ draw_order' = Append(draw_order, DynamicTexture(Len(dyntexs') - 1))
  /\ gpu' = gpu \cup {nlayers + 1}
  /\ layers' = layers \cup {[id |-> Len(dyntexs') - 1, gen |-> nlayers + 1]}
  /\ nlayers' = nlayers + 1
  /\ ret' = [op |-> "add_layer", args |-> <<options>>,
             result |-> [id |-> Len(dyntexs') - 1, gen |-> nlayers + 1]]
  /\ UNCHANGED <<handles, panicked, nadds, nsets>>
  /\ UNCHANGED frame_vars

\* the first position (from 1) of the layer's entry in the draw order, 0 for None
RECURSIVE FindFrom(_, _, _)
FindFrom(order, id, i) ==
  IF i > Len(order) THEN 0
  ELSE IF order[i] = DynamicTexture(id) THEN i
  ELSE FindFrom(order, id, i + 1)

\* FindLayer without the guard on the id: the first entry of the kind
FindLayerAnyId(order, id) == IF order # <<>> THEN 1 ELSE 0

FindLayer(order, id) == FindFrom(order, id, 1)

\* Vec::remove(idx)
RemoveAt(seq, i) == SubSeq(seq, 1, i - 1) \o SubSeq(seq, i + 1, Len(seq))

\* IsLastTexture without the test: the last layer is popped at every removal
IsLastTextureAlways(len, id) == TRUE

\* the test that decides whether the layer is popped and destroyed
IsLastTexture(len, id) == len = id + 1

RemoveLayer(texture) ==
  /\ ~panicked
  /\ texture \in layers
  /\ layers' = layers \ {texture}
  /\ LET idx == FindLayer(draw_order, texture.id) IN
       IF idx # 0
       THEN /\ draw_order' = RemoveAt(draw_order, idx)
            /\ IF IsLastTexture(Len(dyntexs), texture.id)
               THEN /\ dyntexs' = SubSeq(dyntexs, 1, Len(dyntexs) - 1)
                    /\ gpu' = gpu \ {dyntexs[Len(dyntexs)].gen}
               ELSE UNCHANGED <<dyntexs, gpu>>
       ELSE UNCHANGED <<draw_order, dyntexs, gpu>>
  /\ ret' = [op |-> "remove_layer", args |-> <<texture>>, result |-> <<>>]
  /\ UNCHANGED <<handles, panicked, nlayers, nadds, nsets>>
  /\ UNCHANGED frame_vars

\* ---- sprites ----
\* AddIndex taking the oldest released slot instead of the newest
AddIndexFifo(tex) ==
  IF tex.removed # <<>>
  THEN [index |-> Head(tex.removed), removed |-> Tail(tex.removed), count |-> tex.count]
  ELSE [index |-> tex.count, removed |-> tex.removed, count |-> tex.count + 1]

\* AddIndex reading the last released slot and leaving it on the free list
AddIndexPeek(tex) ==
  IF tex.removed # <<>>
  THEN [index |-> tex.removed[Len(tex.removed)], removed |-> tex.removed, count |-> tex.count]
  ELSE [index |-> tex.count, removed |-> tex.removed, count |-> tex.count + 1]

\* the slot an add uses: the last released one, else a new one at the end
AddIndex(tex) ==
  IF tex.removed # <<>>
  THEN [index |-> tex.removed[Len(tex.removed)],
        removed |-> SubSeq(tex.removed, 1, Len(tex.removed) - 1),
        count |-> tex.count]
  ELSE [index |-> tex.count, removed |-> tex.removed, count |-> tex.count + 1]

\* the corners in the order add writes them: (point, uv) of top left, bottom left,
\* bottom right, top right
Corners(sprite) ==
  LET w == sprite.width
      h == sprite.height
      o == sprite.origin
      a == sprite.uv_begin
      b == sprite.uv_end
  IN << << <<(-w) \div 2 - o[1], (-h) \div 2 - o[2]>>, a >>,
        << <<(-w) \div 2 - o[1], h \div 2 - o[2]>>, <<a[1], b[2]>> >>,
        << <<w \div 2 - o[1], h \div 2 - o[2]>>, <<b[1], b[2]>> >>,
        << <<w \div 2 - o[1], (-h) \div 2 - o[2]>>, <<b[1], a[2]>> >> >>

\* VertexWrites without the write of the scale
VertexWritesNoScale(idx, corner, sprite, i) ==
  << <<idx, corner[1][1]>>, <<idx + 4, corner[1][2]>>, <<idx + 8, sprite.depth>>,
     <<idx + 12, corner[2][1]>>, <<idx + 16, corner[2][2]>>,
     <<idx + 20, sprite.translation[1]>>, <<idx + 24, sprite.translation[2]>>,
     <<idx + 28, sprite.rotation>>,
     <<idx + 36, ColorWord(sprite.colors[i + 1])>> >>

\* the writes of one vertex: x, y, depth, uv, translation, rotation, scale, color
VertexWrites(idx, corner, sprite, i) ==
  << <<idx, corner[1][1]>>, <<idx + 4, corner[1][2]>>, <<idx + 8, sprite.depth>>,
     <<idx + 12, corner[2][1]>>, <<idx + 16, corner[2][2]>>,
     <<idx + 20, sprite.translation[1]>>, <<idx + 24, sprite.translation[2]>>,
     <<idx + 28, sprite.rotation>>, <<idx + 32, sprite.scale>>,
     <<idx + 36, ColorWord(sprite.colors[i + 1])>> >>

AddWrites(idx, sprite) ==
  VertexWrites(idx, Corners(sprite)[1], sprite, 0)
    \o VertexWrites(idx + VertexBytes, Corners(sprite)[2], sprite, 1)
    \o VertexWrites(idx + 2 * VertexBytes, Corners(sprite)[3], sprite, 2)
    \o VertexWrites(idx + 3 * VertexBytes, Corners(sprite)[4], sprite, 3)

\* (index * 4 * 10 * 4 is a u32 product; the slot counts explored stay far below
\* the 2^32 / 160 slots at which it would overflow)
Add(texture, sprite) ==
  /\ ~panicked
  /\ texture \in layers
  /\ nadds < MaxAdds
  /\ nadds' = nadds + 1
  /\ IF ~HasLayer(texture.id)
     THEN /\ panicked' = TRUE
          /\ ret' = [op |-> "add", args |-> <<texture, sprite>>, result |-> <<>>]
          /\ UNCHANGED <<dyntexs, handles>>
     ELSE LET tex == Tex(texture.id)
              a == AddIndex(tex)
              idx == a.index * SpriteBytes
              w == WriteAll(Grow(tex.mockbuffer, idx), AddWrites(idx, sprite))
              h == [layer |-> texture.id, slot |-> a.index, gen |-> tex.gen]
          IN /\ dyntexs' = [dyntexs EXCEPT ![texture.id + 1] =
                              [tex EXCEPT !.count = a.count, !.removed = a.removed,
                                          !.mockbuffer = w.buf]]
             /\ panicked' = ~w.ok
             /\ handles' = IF w.ok THEN handles (+) SetToBag({h}) ELSE handles
             /\ ret' = [op |-> "add", args |-> <<texture, sprite>>, result |-> h]
  /\ UNCHANGED <<draw_order, gpu, layers, nlayers, nsets>>
  /\ UNCHANGED frame_vars

\* RemoveSpriteWrites with the range 0..3 for 0..=3: the last vertex keeps its scale
RemoveSpriteWritesThree(idx) ==
  << <<idx + 32, 0>>, <<VertexBytes + idx + 32, 0>>, <<2 * VertexBytes + idx + 32, 0>> >>

\* the scale word of each of the 4 vertices, set to 0.0
RemoveSpriteWrites(idx) ==
  << <<idx + 32, 0>>, <<VertexBytes + idx + 32, 0>>,
     <<2 * VertexBytes + idx + 32, 0>>, <<3 * VertexBytes + idx + 32, 0>> >>

\* Released of a remove_sprite that keeps a slot from being released twice
ReleasedOnce(removed, slot) ==
  IF \E i \in 1..Len(removed) : removed[i] = slot THEN removed ELSE Append(removed, slot)

\* dyntex.removed.push(handle.1)
Released(removed, slot) == Append(removed, slot)

RemoveSprite(handle) ==
  /\ ~panicked
  /\ BagIn(handle, handles)
  /\ handles' = handles (-) SetToBag({handle})
  /\ IF HasLayer(handle.layer)
     THEN LET tex == Tex(handle.layer)
              w == WriteAll(tex.mockbuffer, RemoveSpriteWrites(handle.slot * SpriteBytes))
          IN /\ dyntexs' = [dyntexs EXCEPT ![handle.layer + 1] =
                              [tex EXCEPT !.mockbuffer = w.buf,
                                          !.removed = IF w.ok THEN Released(tex.removed, handle.slot)
                                                      ELSE tex.removed]]
             /\ panicked' = ~w.ok
     ELSE UNCHANGED <<dyntexs, panicked>>
  /\ ret' = [op |-> "remove_sprite", args |-> <<handle>>, result |-> <<>>]
  /\ UNCHANGED <<draw_order, gpu, layers, nlayers, nadds, nsets>>
  /\ UNCHANGED frame_vars


\* SetPositionWrites one word further on: the second translation word and the
\* rotation word
SetPositionWritesShifted(idx, position) ==
  << <<idx + 6 * 4, position[1]>>, <<idx + 7 * 4, position[2]>>,
     <<idx + 40 + 6 * 4, position[1]>>, <<idx + 40 + 7 * 4, position[2]>>,
     <<idx + 80 + 6 * 4, position[1]>>, <<idx + 80 + 7 * 4, position[2]>>,
     <<idx + 120 + 6 * 4, position[1]>>, <<idx + 120 + 7 * 4, position[2]>> >>

\* the translation words of the 4 vertices
SetPositionWrites(idx, position) ==
  << <<idx + 5 * 4, position[1]>>, <<idx + 6 * 4, position[2]>>,
     <<idx + 40 + 5 * 4, position[1]>>, <<idx + 40 + 6 * 4, position[2]>>,
     <<idx + 80 + 5 * 4, position[1]>>, <<idx + 80 + 6 * 4, position[2]>>,
     <<idx + 120 + 5 * 4, position[1]>>, <<idx + 120 + 6 * 4, position[2]>> >>

\* the rotation word of the 4 vertices
SetRotationWrites(idx, rot) ==
  << <<idx + 7 * 4, rot>>, <<idx + 40 + 7 * 4, rot>>,
     <<idx + 80 + 7 * 4, rot>>, <<idx + 120 + 7 * 4, rot>> >>

\* UvWrites going round the corners the other way: the second and the fourth
\* vertex get each other's uv
UvWritesOtherWay(idx, uv_begin, uv_end) ==
  << <<idx + 3 * 4, uv_begin[1]>>, <<idx + 4 * 4, uv_begin[2]>>,
     <<idx + 40 + 3 * 4, uv_end[1]>>, <<idx + 40 + 4 * 4, uv_begin[2]>>,
     <<idx + 80 + 3 * 4, uv_end[1]>>, <<idx + 80 + 4 * 4, uv_end[2]>>,
     <<idx + 120 + 3 * 4, uv_begin[1]>>, <<idx + 120 + 4 * 4, uv_end[2]>> >>

\* the uv words of the 4 vertices: (begin0, begin1), (begin0, end1), (end0, end1),
\* (end0, begin1)
UvWrites(idx, uv_begin, uv_end) ==
  << <<idx + 3 * 4, uv_begin[1]>>, <<idx + 4 * 4, uv_begin[2]>>,
     <<idx + 40 + 3 * 4, uv_begin[1]>>, <<idx + 40 + 4 * 4, uv_end[2]>>,
     <<idx + 80 + 3 * 4, uv_end[1]>>, <<idx + 80 + 4 * 4, uv_end[2]>>,
     <<idx + 120 + 3 * 4, uv_end[1]>>, <<idx + 120 + 4 * 4, uv_begin[2]>> >>

\* a setter without a test of the slot: the writes go to the layer at the handle's
\* id, if there is one
WriteSprite(handle, writes) ==
  IF HasLayer(handle.layer)
  THEN LET tex == Tex(handle.layer)
           w == WriteAll(tex.mockbuffer, writes)
       IN /\ dyntexs' = [dyntexs EXCEPT ![handle.layer + 1].mockbuffer = w.buf]
          /\ panicked' = ~w.ok
  ELSE UNCHANGED <<dyntexs, panicked>>

SetPosition(handle, position) ==
  /\ ~panicked
  /\ BagIn(handle, handles)
  /\ nsets < MaxSetCalls
  /\ nsets' = nsets + 1
  /\ WriteSprite(handle, SetPositionWrites(handle.slot * SpriteBytes, position))
  /\ ret' = [op |-> "set_position", args |-> <<handle, position>>, result |-> <<>>]
  /\ UNCHANGED <<draw_order, gpu, layers, handles, nlayers, nadds>>
  /\ UNCHANGED frame_vars

SetRotation(handle, rotation) ==
  /\ ~panicked
  /\ BagIn(handle, handles)
  /\ nsets < MaxSetCalls
  /\ nsets' = nsets + 1
  /\ WriteSprite(handle, SetRotationWrites(handle.slot * SpriteBytes, rotation))
  /\ ret' = [op |-> "set_rotation", args |-> <<handle, rotation>>, result |-> <<>>]
  /\ UNCHANGED <<draw_order, gpu, layers, handles, nlayers, nadds>>
  /\ UNCHANGED frame_vars

\* the test of the slot that set_uv and set_uvs make
SlotExists(slot, tex) == slot < tex.count

\* one entry of set_uv / set_uvs on the layer's buffer
UvEntry(buf, tex, slot, uv_begin, uv_end) ==
  IF SlotExists(slot, tex)
  THEN WriteAll(buf, UvWrites(slot * SpriteBytes, uv_begin, uv_end))
  ELSE [buf |-> buf, ok |-> TRUE]

SetUv(handle, uv_begin, uv_end) ==
  /\ ~panicked
  /\ BagIn(handle, handles)
  /\ nsets < MaxSetCalls
  /\ nsets' = nsets + 1
  /\ IF HasLayer(handle.layer)
     THEN LET tex == Tex(handle.layer)
              w == UvEntry(tex.mockbuffer, tex, handle.slot, uv_begin, uv_end)
          IN /\ dyntexs' = [dyntexs EXCEPT ![handle.layer + 1].mockbuffer = w.buf]
             /\ panicked' = ~w.ok
     ELSE UNCHANGED <<dyntexs, panicked>>
  /\ ret' = [op |-> "set_uv", args |-> <<handle, uv_begin, uv_end>>, result |-> <<>>]
  /\ UNCHANGED <<draw_order, gpu, layers, handles, nlayers, nadds>>
  /\ UNCHANGED frame_vars

\* UvsRest without the loop: the entries after the first are not written
UvsRestNone(buf, tex, current_texture_handle, uvs) == [buf |-> buf, ok |-> TRUE]

\* the loop of set_uvs over the entries after the first
RECURSIVE UvsRest(_, _, _, _)
UvsRest(buf, tex, current_texture_handle, uvs) ==
  IF uvs = <<>> THEN [buf |-> buf, ok |-> TRUE]
  ELSE IF uvs[1][1].layer # current_texture_handle THEN [buf |-> buf, ok |-> FALSE]
  ELSE LET w == UvEntry(buf, tex, uvs[1][1].slot, uvs[1][2], uvs[1][3])
       IN IF w.ok THEN UvsRest(w.buf, tex, current_texture_handle, Tail(uvs)) ELSE w

\* the whole of set_uvs on the collection: [texs, ok]
SetUvsResult(texs, uvs) ==
  IF uvs = <<>> THEN [texs |-> texs, ok |-> TRUE]
  ELSE LET first == uvs[1] IN
    IF ~(first[1].layer < Len(texs)) THEN [texs |-> texs, ok |-> TRUE]
    ELSE LET tex == texs[first[1].layer + 1]
             w1 == UvEntry(tex.mockbuffer, tex, first[1].slot, first[2], first[3])
             w == IF w1.ok THEN UvsRest(w1.buf, tex, first[1].layer, Tail(uvs)) ELSE w1
         IN [texs |-> [texs EXCEPT ![first[1].layer + 1].mockbuffer = w.buf], ok |-> w.ok]

\* the batches the remaining budget of setter calls allows, an entry counting as a call
Batches ==
  UNION {[1..n -> BagToSet(handles) \X UvRects] : n \in 0..(MaxSetCalls - nsets)}

SetUvs(uvs) ==
  /\ ~panicked
  /\ nsets + Len(uvs) <= MaxSetCalls
  /\ nsets' = nsets + Len(uvs)
  /\ LET r == SetUvsResult(dyntexs, [i \in 1..Len(uvs) |-> <<uvs[i][1], uvs[i][2][1], uvs[i][2][2]>>])
     IN /\ dyntexs' = r.texs
        /\ panicked' = ~r.ok
  /\ ret' = [op |-> "set_uvs",
             args |-> <<[i \in 1..Len(uvs) |-> uvs[i][1]], [i \in 1..Len(uvs) |-> uvs[i][2]]>>,
             result |-> <<>>]
  /\ UNCHANGED <<draw_order, gpu, layers, handles, nlayers, nadds>>
  /\ UNCHANGED frame_vars

\* the words of a vertex, and the places in it, from 0, of the words of the
\* translation and of the rotation
VertexWords == VertexBytes \div WordBytes

\* TranslateAll of the live slots only: a vertex whose scale is zero is left alone
TranslateAllLive(buf, dxdy) ==
  [p \in 1..Len(buf) |->
     IF buf[((p - 1) \div VertexWords) * VertexWords + 9] = 0 THEN buf[p]
     ELSE IF (p - 1) % VertexWords = 5 THEN buf[p] + dxdy[1]
     ELSE IF (p - 1) % VertexWords = 6 THEN buf[p] + dxdy[2]
     ELSE buf[p]]

\* for mock in mockbuffer.chunks_mut(40): mock[5 * 4..6 * 4] and mock[6 * 4..7 * 4]
\* get the sum of what they hold and the delta.  (The read goes through a &[f32]
\* made from a 4-byte slice, of which only the element 0, these 4 bytes, is read.)
TranslateAll(buf, dxdy) ==
  [p \in 1..Len(buf) |->
     IF (p - 1) % VertexWords = 5 THEN buf[p] + dxdy[1]
     ELSE IF (p - 1) % VertexWords = 6 THEN buf[p] + dxdy[2]
     ELSE buf[p]]

\* RotateAll of the first vertex of each sprite only
RotateAllFirstVertex(buf, deg) ==
  [p \in 1..Len(buf) |-> IF (p - 1) % (4 * VertexWords) = 7 THEN buf[p] + deg ELSE buf[p]]

\* for mock in mockbuffer.chunks_mut(40): mock[28..32] gets the sum
RotateAll(buf, deg) ==
  [p \in 1..Len(buf) |-> IF (p - 1) % VertexWords = 7 THEN buf[p] + deg ELSE buf[p]]

\* sprite_translate_all and sprite_rotate_all: the layer's buffer, if the layer
\* is in the collection
AllOfLayer(op, tex, arg, buf) ==
  /\ ~panicked
  /\ tex \in layers
  /\ nsets < MaxSetCalls
  /\ nsets' = nsets + 1
  /\ IF HasLayer(tex.id)
     THEN dyntexs' = [dyntexs EXCEPT ![tex.id + 1].mockbuffer = buf]
     ELSE UNCHANGED dyntexs
  /\ ret' = [op |-> op, args |-> <<tex, arg>>, result |-> <<>>]
  /\ UNCHANGED <<draw_order, gpu, layers, handles, panicked, nlayers, nadds>>
  /\ UNCHANGED frame_vars

SpriteTranslateAll(tex, dxdy) ==
  AllOfLayer("sprite_translate_all", tex, dxdy,
             IF HasLayer(tex.id) THEN TranslateAll(Tex(tex.id).mockbuffer, dxdy) ELSE <<>>)

SpriteRotateAll(tex, deg) ==
  AllOfLayer("sprite_rotate_all", tex, deg,
             IF HasLayer(tex.id) THEN RotateAll(Tex(tex.id).mockbuffer, deg) ELSE <<>>)

\* ---- what the claims speak of ----
\* the layers the client has not removed
LiveGens == {l.gen : l \in layers}

\* the handle was spawned from the layer that is now at its layer id
OwnHandle(h) == HasLayer(h.layer) /\ Tex(h.layer).gen = h.gen

\* the sprite of the handle is live: not removed, and its layer is not removed
LiveSprite(h) == BagIn(h, handles) /\ h.gen \in LiveGens

\* the places, from 1, of the scale words of slot s in a buffer of words
ScaleWords(s) == {s * 40 + v * 10 + 9 : v \in 0..3}

\* C1: an add right after a remove_sprite on the same layer returns the slot that
\* remove_sprite released; in general add returns the most recently released slot
\* that was not reused (the free list is LIFO) and leaves the slot count alone, and
\* it appends a new slot, with the slot count as its id, only when no released slot
\* is left.
C1_LifoReuse ==
  [][\A l \in layers :
       (ret'.op = "add" /\ ret'.args[1] = l /\ nadds' = nadds + 1) =>
         LET tex == Tex(l.id)
             slot == ret'.result.slot
         IN /\ (ret.op = "remove_sprite" /\ ~panicked /\ ret.args[1].layer = l.id)
                 => slot = ret.args[1].slot
            /\ tex.removed # <<>> =>
                 /\ slot = tex.removed[Len(tex.removed)]
                 /\ dyntexs'[l.id + 1].removed = SubSeq(tex.removed, 1, Len(tex.removed) - 1)
                 /\ dyntexs'[l.id + 1].count = tex.count
            /\ tex.removed = <<>> =>
                 /\ slot = tex.count
                 /\ dyntexs'[l.id + 1].count = tex.count + 1
                 /\ dyntexs'[l.id + 1].removed = <<>>]_vars

\* slots 0 and 1 were released in this order and add has returned slot 1
C1_Witness ==
  /\ ret.op = "add"
  /\ ret.result.slot = 1
  /\ HasLayer(ret.result.layer)
  /\ Tex(ret.result.layer).removed = <<0>>
  /\ Tex(ret.result.layer).count = 2

\* C2: a remove_sprite that finds the handle's layer sets the scale word of the 4
\* vertices of the handle's slot to zero and changes no other word of that buffer,
\* nor its length, nor the slot count, nor any other layer.
C2_RemoveSpriteEffect ==
  [][\A h \in BagToSet(handles) :
       (ret'.op = "remove_sprite" /\ ret'.args[1] = h /\ handles' # handles
          /\ ~panicked' /\ HasLayer(h.layer)) =>
         LET old == Tex(h.layer)
             new == dyntexs'[h.layer + 1]
         IN /\ Len(dyntexs') = Len(dyntexs)
            /\ \A i \in 1..Len(dyntexs) : i # h.layer + 1 => dyntexs'[i] = dyntexs[i]
            /\ new.count = old.count
            /\ Len(new.mockbuffer) = Len(old.mockbuffer)
            /\ ScaleWords(h.slot) \subseteq 1..Len(new.mockbuffer)
            /\ \A p \in 1..Len(new.mockbuffer) :
                 new.mockbuffer[p] = IF p \in ScaleWords(h.slot) THEN 0 ELSE old.mockbuffer[p]]_vars

\* a sprite was removed from a layer that holds another, live sprite
C2_Witness ==
  /\ ret.op = "remove_sprite"
  /\ ~panicked
  /\ OwnHandle(ret.args[1])
  /\ \A p \in ScaleWords(ret.args[1].slot) : Tex(ret.args[1].layer).mockbuffer[p] = 0
  /\ \E h \in BagToSet(handles) :
       /\ h.layer = ret.args[1].layer /\ h.slot # ret.args[1].slot /\ LiveSprite(h)
       /\ \A p \in ScaleWords(h.slot) : Tex(h.layer).mockbuffer[p] # 0

\* C3: no two live sprites of a layer hold the same slot.
C3_NoSharedSlot ==
  \A h \in BagToSet(handles) : LiveSprite(h) => CopiesIn(h, handles) = 1

\* C4: add never writes outside the host buffer: it does not panic, the buffer
\* holds the whole of the slot it returns, and an add that reuses a released slot
\* changes neither the slot count nor the length of the buffer; a remove_sprite
\* with a handle spawned from the layer at its id writes inside the buffer too.
C4_WritesInside ==
  [][/\ \A l \in layers :
          (ret'.op = "add" /\ ret'.args[1] = l /\ nadds' = nadds + 1) =>
            LET old == Tex(l.id)
                new == dyntexs'[l.id + 1]
            IN /\ ~panicked'
               /\ ByteLen(new.mockbuffer) >= (ret'.result.slot + 1) * 160
               /\ old.removed # <<>> =>
                    /\ new.count = old.count
                    /\ ByteLen(new.mockbuffer) = ByteLen(old.mockbuffer)
     /\ \A h \in BagToSet(handles) :
          (ret'.op = "remove_sprite" /\ ret'.args[1] = h /\ handles' # handles /\ OwnHandle(h))
            => ~panicked']_vars

\* add and remove_sprite three times in a row on one layer: one slot, used again
C4_Witness ==
  /\ ret.op = "add"
  /\ ~panicked
  /\ nadds = 3
  /\ HasLayer(ret.result.layer)
  /\ Tex(ret.result.layer).count = 1
  /\ ByteLen(Tex(ret.result.layer).mockbuffer) = 160

\* a remove_layer of layer l is the step taken
RemovedLayer(l) == ret'.op = "remove_layer" /\ ret'.args[1] = l /\ l \in layers /\ l \notin layers'

C6_TrailingCascade ==
  /\ \A i \in 1..Len(dyntexs) :
       dyntexs[i].gen \notin LiveGens => \E j \in (i + 1)..Len(dyntexs) : dyntexs[j].gen \in LiveGens
  /\ gpu \subseteq {dyntexs[i].gen : i \in 1..Len(dyntexs)}
  /\ layers = {} => (dyntexs = <<>> /\ gpu = {})

\* the place of a layer's entry in the draw order
DrawPlace(order, id) == FindFrom(order, id, 1)

\* C7: the live layers have pairwise different ids, each id is the place in the
\* collection of the layer made with it, and each has one entry in the draw order;
\* a remove_layer leaves the other live layers, the collection entries they and
\* their sprite handles refer to, and the order of their draw-order entries as
\* they were.
C7_StableIds ==
  [][/\ \A a \in layers', b \in layers' : a.id = b.id => a = b
     /\ \A a \in layers' :
          /\ a.id < Len(dyntexs') /\ dyntexs'[a.id + 1].gen = a.gen
          /\ Cardinality({i \in 1..Len(draw_order') : draw_order'[i] = DynamicTexture(a.id)}) = 1
     /\ \A l \in layers :
          RemovedLayer(l) =>
            /\ layers' = layers \ {l}
            /\ \A m \in layers' : dyntexs'[m.id + 1] = dyntexs[m.id + 1]
            /\ \A h \in BagToSet(handles) :
                 h.gen \in {m.gen : m \in layers'} =>
                   /\ BagIn(h, handles')
                   /\ OwnHandle(h)
                   /\ dyntexs'[h.layer + 1].gen = h.gen
            /\ \A m \in layers', n \in layers' :
                 DrawPlace(draw_order, m.id) < DrawPlace(draw_order, n.id)
                   => DrawPlace(draw_order', m.id) < DrawPlace(draw_order', n.id)]_vars

\* the middle one of three layers was removed; the other two are live, each with a
\* sprite, and the first is drawn before the last
C7_Witness ==
  /\ ret.op = "remove_layer"
  /\ ret.args[1].id = 1
  /\ Len(dyntexs) = 3
  /\ Cardinality(layers) = 2
  /\ draw_order = <<DynamicTexture(0), DynamicTexture(2)>>
  /\ \A l \in layers : \E h \in BagToSet(handles) : h.gen = l.gen

\* a call of one of the single-handle mutations with handle h is the step taken
MutatedWith(h, ops) ==
  /\ ret'.op \in ops
  /\ ret'.args[1] = h
  /\ \/ nsets' = nsets + 1
     \/ handles' # handles

\* a set_uvs call with a batch of handles that are all stale is the step taken
StaleBatch ==
  /\ ret'.op = "set_uvs"
  /\ nsets' > nsets
  /\ \A i \in 1..Len(ret'.args[1]) : ret'.args[1][i].gen \notin LiveGens

\* C8: a mutation call with a handle spawned from a removed layer is a no-op: it
\* does not panic and changes no host buffer and no free list.
C8_StaleHandleNoOp ==
  [][/\ \A h \in BagToSet(handles) :
          (h.gen \notin LiveGens
             /\ MutatedWith(h, {"remove_sprite", "set_position", "set_rotation", "set_uv"}))
            => (dyntexs' = dyntexs /\ ~panicked')
     /\ StaleBatch => (dyntexs' = dyntexs /\ ~panicked')]_vars

\* C9: set_position, set_rotation and set_uv with a handle whose layer id is not
\* in the collection, or whose slot is not below the layer's slot count, write
\* nothing and do not panic.
C9_SettersCheckHandle ==
  [][\A h \in BagToSet(handles) :
       (MutatedWith(h, {"set_position", "set_rotation", "set_uv"})
          /\ (~HasLayer(h.layer) \/ ~(h.slot < Tex(h.layer).count)))
         => (dyntexs' = dyntexs /\ ~panicked')]_vars

\* C10: a set_uvs call with a batch in which two entries have different layer ids
\* panics.
C10_MixedBatchPanics ==
  (ret.op = "set_uvs"
     /\ \E i \in 1..Len(ret.args[1]), j \in 1..Len(ret.args[1]) :
          ret.args[1][i].layer # ret.args[1][j].layer)
    => panicked

\* ---- the frame: the draw order across kinds, draw_frame and the GPU ----
StreamingTexture(id) == [kind |-> "StreamingTexture", id |-> id]

\* the attribute streams of a layer, in the order the draw loop looks at them
StreamNames == <<"posbuf", "opacbuf", "uvbuf", "tranbuf", "rotbuf", "scalebuf">>

StreamSet == {StreamNames[i] : i \in 1..Len(StreamNames)}

\* the stream the mutations explored write to
TouchedStreams == {"posbuf"}

\* a stream of a new layer: an empty host buffer, one empty GPU buffer per
\* in-flight frame, nothing to upload.  The field frames is a history value: the
\* draw_frame calls, up to the count of in-flight frames, that have returned since
\* the last mutation of the stream; no action reads it to decide what to do.
NewStream(n) == [touch |-> 0, host |-> 0, gpu |-> [k \in 1..n |-> 0], frames |-> 0]

\* the streams of the layer made by the g-th add_layer call of any kind
NewStreams(n) == [g \in 1..MaxAddLayer |-> [s \in StreamSet |-> NewStream(n)]]

\* a new streaming texture of 2 x 2 pixels: one write queue and one image for
\* each in-flight frame.  The field image is a history value: for every queued
\* write that a recording went through, its id and the pixels it stored to.
NewStreamingTexture(n, g) ==
  [hidden |-> FALSE, fixed_perspective |-> NoPerspective, gen |-> g,
   width |-> 2, height |-> 2,
   circular_writes |-> [k \in 1..n |-> <<>>],
   image |-> [k \in 1..n |-> {}]]

\* add_layer of a streaming texture: a new entry of its kind's collection, and its
\* tagged entry at the end of the draw order
AddStreamingLayer ==
  /\ ~panicked
  /\ pc = "idle"
  /\ nlayers < MaxAddLayer
  /\ strtexs' = Append(strtexs, NewStreamingTexture(max_frames_in_flight, nlayers + 1))
  /\ draw_order' = Append(draw_order, StreamingTexture(Len(strtexs') - 1))
  /\ nlayers' = nlayers + 1
  /\ ret' = [op |-> "strtex_add_layer", args |-> <<>>,
             result |-> [id |-> Len(strtexs') - 1, gen |-> nlayers + 1]]
  /\ UNCHANGED <<dyntexs, gpu, layers, panicked, arena_vars>>
  /\ UNCHANGED <<streams, current_frame, max_frames_in_flight, resized_since_last_render,
                 frames_in_flight_fences, submitted, pc, recorded, call, nframes, nrestarts, ntouch>>
  /\ UNCHANGED <<perspective, debtris, swapchain>>

\* StreamingTextureWrite::Single((x, y), color) and
\* StreamingTextureWrite::Block((x, y), (w, h), color), without the color
Single(x, y) == [kind |-> "Single", x |-> x, y |-> y, w |-> 1, h |-> 1, id |-> 0]

Block(x, y, w, h) == [kind |-> "Block", x |-> x, y |-> y, w |-> w, h |-> h, id |-> 0]

\* a write of pixels to the streaming texture with the id i - 1: it is queued in
\* the queue of the current in-flight frame; the id of the write is its number
\* among the writes
QueueWrite(i, write) ==
  /\ ~panicked
  /\ pc = "idle"
  /\ i \in 1..Len(strtexs)
  /\ nsets < MaxSetCalls
  /\ nsets' = nsets + 1
  /\ strtexs' = [strtexs EXCEPT ![i].circular_writes[current_frame + 1] =
                   Append(@, [write EXCEPT !.id = nsets + 1])]
  /\ ret' = [op |-> "strtex_write", args |-> <<i - 1, write>>, result |-> nsets + 1]
  /\ UNCHANGED <<dyntexs, draw_order, gpu, layers, panicked, nlayers, handles, nadds>>
  /\ UNCHANGED <<streams, current_frame, max_frames_in_flight, resized_since_last_render,
                 frames_in_flight_fences, submitted, pc, recorded, call, nframes, nrestarts, ntouch>>
  /\ UNCHANGED <<perspective, debtris, swapchain>>

\* hide and show of the streaming texture with the id i - 1: the flag is written
StrtexSetHidden(i, hidden) ==
  /\ ~panicked
  /\ pc = "idle"
  /\ i \in 1..Len(strtexs)
  /\ strtexs[i].hidden # hidden
  /\ strtexs' = [strtexs EXCEPT ![i].hidden = hidden]
  /\ ret' = [op |-> IF hidden THEN "strtex_hide" ELSE "strtex_show", args |-> <<i - 1>>,
             result |-> <<>>]
  /\ UNCHANGED <<dyntexs, draw_order, gpu, layers, panicked, nlayers, arena_vars>>
  /\ UNCHANGED <<streams, current_frame, max_frames_in_flight, resized_since_last_render,
                 frames_in_flight_fences, submitted, pc, recorded, call, nframes, nrestarts, ntouch>>
  /\ UNCHANGED <<perspective, debtris, swapchain>>

\* hide and show of the debug triangles: the flag is written
DebtrisSetHidden(hidden) ==
  /\ ~panicked
  /\ pc = "idle"
  /\ debtris.hidden # hidden
  /\ debtris' = [debtris EXCEPT !.hidden = hidden]
  /\ ret' = [op |-> IF hidden THEN "debtri_hide" ELSE "debtri_show", args |-> <<>>,
             result |-> <<>>]
  /\ UNCHANGED <<dyntexs, draw_order, gpu, layers, panicked, nlayers, arena_vars>>
  /\ UNCHANGED <<strtexs, streams, current_frame, max_frames_in_flight, resized_since_last_render,
                 frames_in_flight_fences, submitted, pc, recorded, call, nframes, nrestarts, ntouch>>
  /\ UNCHANGED <<perspective, swapchain>>

\* the surface comes to ask for another number of swapchain images (its
\* capabilities are read at the next rebuild)
SurfaceChanges(image_count) ==
  /\ ~panicked
  /\ image_count # swapchain.caps
  /\ swapchain' = [swapchain EXCEPT !.caps = image_count]
  /\ UNCHANGED <<dyntexs, draw_order, gpu, layers, ret, panicked, nlayers, arena_vars>>
  /\ UNCHANGED <<strtexs, streams, current_frame, max_frames_in_flight, resized_since_last_render,
                 frames_in_flight_fences, submitted, pc, recorded, call, nframes, nrestarts, ntouch>>
  /\ UNCHANGED <<perspective, debtris>>

\* a mutation of one attribute stream of a layer: the host buffer gets a new
\* content and the stream is to be uploaded to every in-flight GPU buffer
Touch(g, s) ==
  /\ ~panicked
  /\ pc = "idle"
  /\ ntouch < MaxTouch
  /\ ntouch' = ntouch + 1
  /\ streams' = [streams EXCEPT ![g][s] =
                   [@ EXCEPT !.host = ntouch + 1, !.touch = max_frames_in_flight, !.frames = 0]]
  /\ UNCHANGED <<dyntexs, draw_order, gpu, layers, ret, panicked, nlayers, arena_vars>>
  /\ UNCHANGED <<strtexs, current_frame, max_frames_in_flight, resized_since_last_render,
                 frames_in_flight_fences, submitted, pc, recorded, call, nframes, nrestarts>>
  /\ UNCHANGED <<perspective, debtris, swapchain>>

\* self.vx.dyntexs[layer.0].hidden = hidden; the index panics out of range
SetHidden(op, layer, hidden) ==
  /\ ~panicked
  /\ pc = "idle"
  /\ layer \in layers
  /\ IF HasLayer(layer.id)
     THEN /\ dyntexs' = [dyntexs EXCEPT ![layer.id + 1].hidden = hidden]
          /\ UNCHANGED panicked
     ELSE /\ panicked' = TRUE
          /\ UNCHANGED dyntexs
  /\ ret' = [op |-> op, args |-> <<layer>>, result |-> <<>>]
  /\ UNCHANGED <<draw_order, gpu, layers, nlayers, arena_vars, frame_vars>>

Hide(layer) == SetHidden("hide", layer, TRUE)

Show(layer) == SetHidden("show", layer, FALSE)

\* the layers a client can name, as the tagged entry each looks for
Layerables ==
  {DynamicTexture(l.id) : l \in layers} \cup {StreamingTexture(i) : i \in 0..(Len(strtexs) - 1)}

\* the first position (from 1) of a tagged entry in the draw order, 0 for none
RECURSIVE FindTagFrom(_, _, _)
FindTagFrom(order, tag, i) ==
  IF i > Len(order) THEN 0
  ELSE IF order[i] = tag THEN i
  ELSE FindTagFrom(order, tag, i + 1)

\* Layerable::get_layer: 0 stands for the panic "Unable to get layer"
GetLayer(order, tag) ==
  IF tag.kind = "DynamicTexture" THEN FindLayer(order, tag.id) ELSE FindTagFrom(order, tag, 1)

\* Swap writing only the first of the two places
SwapOneWay(seq, i, j) == [seq EXCEPT ![i] = seq[j]]

\* Vec::swap
Swap(seq, i, j) == [seq EXCEPT ![i] = seq[j], ![j] = seq[i]]

SwapLayers(layer1, layer2) ==
  /\ ~panicked
  /\ pc = "idle"
  /\ LET idx1 == GetLayer(draw_order, layer1)
         idx2 == GetLayer(draw_order, layer2)
     IN IF idx1 = 0 \/ idx2 = 0
        THEN /\ panicked' = TRUE
             /\ UNCHANGED draw_order
        ELSE /\ draw_order' = Swap(draw_order, idx1, idx2)
             /\ UNCHANGED panicked
  /\ ret' = [op |-> "swap_layers", args |-> <<layer1, layer2>>, result |-> <<>>]
  /\ UNCHANGED <<dyntexs, gpu, layers, nlayers, arena_vars, frame_vars>>

\* if touch != 0 { buf[current_frame].copy_from_slice_and_maybe_resize(host); touch -= 1 }
UploadStream(st, cf) ==
  IF st.touch # 0
  THEN [st EXCEPT !.gpu[cf + 1] = st.host, !.touch = st.touch - 1]
  ELSE st

\* the six tests of a layer's streams, in order: the streams after them and the
\* names of the streams uploaded
RECURSIVE Uploads(_, _, _)
Uploads(ss, names, cf) ==
  IF names = <<>> THEN [layer |-> ss, uploaded |-> <<>>]
  ELSE LET s == Head(names)
           rest == Uploads([ss EXCEPT ![s] = UploadStream(ss[s], cf)], Tail(names), cf)
       IN [layer |-> rest.layer,
           uploaded |-> IF ss[s].touch # 0 THEN <<s>> \o rest.uploaded ELSE rest.uploaded]

\* Pushed without the test of the layer's own perspective
PushedView(fixed_perspective, view) == view

\* if let Some(persp) = layer.fixed_perspective { push persp } else { push view }
Pushed(fixed_perspective, view) ==
  IF fixed_perspective # NoPerspective THEN fixed_perspective ELSE view

\* LayerEvents with the draw call recorded before the uploads
LayerEventsDrawFirst(tag, uploaded, persp, indices) ==
  << <<"bind", tag>>, <<"draw", tag, indices>> >> \o [i \in 1..Len(uploaded) |-> <<"upload", tag, uploaded[i]>>]
    \o << <<"push", tag, persp>> >>

\* what the draw loop does for a visible layer, in order: bind the pipeline,
\* upload the touched streams, push the perspective constant, record the indexed
\* draw with the end of its range of indices
LayerEvents(tag, uploaded, persp, indices) ==
  << <<"bind", tag>> >> \o [i \in 1..Len(uploaded) |-> <<"upload", tag, uploaded[i]>>]
    \o << <<"push", tag, persp>>, <<"draw", tag, indices>> >>

\* Drawn without the test of the flag
DrawnAlways(hidden) == TRUE

\* posbuffer.len(): the host position buffer has one element for each slot of the
\* layer, so as many as the host buffer of the layer's records has slots; a
\* streaming texture has no sprite here
PosbufferLen(tex) ==
  IF "mockbuffer" \in DOMAIN tex THEN Len(tex.mockbuffer) \div (SpriteBytes \div WordBytes) ELSE 0

\* IndexCount of the sprites that are not removed only
IndexCountLive(tex) ==
  IF "mockbuffer" \in DOMAIN tex THEN (tex.count - Len(tex.removed)) * 6 ELSE 0

\* 0..posbuffer.len() as u32 * 6, the range of draw_indexed (the product is a u32;
\* the slot counts explored stay far below the 2^32 / 6 slots at which it would
\* overflow)
IndexCount(tex) == PosbufferLen(tex) * 6

\* if !layer.hidden
Drawn(hidden) == ~hidden

\* the branch of the draw loop for one layer
DrawLayer(tag, g, hidden, ss, cf, persp, indices) ==
  IF Drawn(hidden)
  THEN LET u == Uploads(ss[g], StreamNames, cf)
       IN [streams |-> [ss EXCEPT ![g] = u.layer], events |-> LayerEvents(tag, u.uploaded, persp, indices)]
  ELSE [streams |-> ss, events |-> <<>>]

\* DrawCmdAt walking the draw order from its end
DrawCmdAtReverse(order, i) == order[Len(order) + 1 - i]

\* for draw_cmd in self.draw_order.iter(): the i-th command
DrawCmdAt(order, i) == order[i]

\* the draw loop from the i-th command on: the streams after it, the events of
\* the host in order, and whether it went through without a panic (an id that is
\* not in its collection panics at the index)
RECURSIVE RecordLoop(_, _, _, _, _)
RecordLoop(order, i, ss, cf, view) ==
  IF i > Len(order) THEN [streams |-> ss, events |-> <<>>, ok |-> TRUE]
  ELSE LET cmd == DrawCmdAt(order, i)
           texs == IF cmd.kind = "DynamicTexture" THEN dyntexs ELSE strtexs
       IN IF ~(cmd.id < Len(texs)) THEN [streams |-> ss, events |-> <<>>, ok |-> FALSE]
          ELSE LET tex == texs[cmd.id + 1]
                   pixels == IF cmd.kind = "StreamingTexture" THEN << <<"pixels", cmd>> >> ELSE <<>>
                   d == DrawLayer(cmd, tex.gen, tex.hidden, ss, cf,
                                  Pushed(tex.fixed_perspective, view), IndexCount(tex))
                   rest == RecordLoop(order, i + 1, d.streams, cf, view)
               IN [streams |-> rest.streams,
                   events |-> pixels \o d.events \o rest.events,
                   ok |-> rest.ok]

\* the debug triangles, as the tag of their events
DebugTriangles == [kind |-> "DebugTriangles", id |-> 0]

\* if !self.debtris.hidden { bind the pipeline, push the ratio, upload the touched
\* streams, draw }: with no debug triangle added or changed the touch counters
\* are 0 and nothing is uploaded
DebtrisEvents(hidden) ==
  IF ~hidden
  THEN << <<"debtris_bind", DebugTriangles>>, <<"debtris_push", DebugTriangles>>,
          <<"debtris_draw", DebugTriangles>> >>
  ELSE <<>>

\* FrameEvents with the debug triangles recorded before the draw loop
FrameEventsDebtrisFirst(of_layers, of_debtris) == of_debtris \o of_layers

\* the events of a recording: the draw loop over the draw order, then the debug
\* triangles
FrameEvents(of_layers, of_debtris) == of_layers \o of_debtris

\* the results of acquire_image and of present the backend can give
BackendResults == {"ok", "suboptimal", "out_of_date", "error"}

Stale(result) == result \in {"suboptimal", "out_of_date"}

\* the results with which the swapchain is still current
NotStale == {result \in BackendResults : ~Stale(result)}

\* AfterBackend taking every error for a stale swapchain
AfterBackendRetry(result, on) == IF result = "ok" THEN on ELSE "recreate"

\* the place after a backend call: on with the frame, the rebuild of the
\* swapchain, or unimplemented![]
AfterBackend(result, on) ==
  IF result = "ok" THEN on
  ELSE IF Stale(result) THEN "recreate"
  ELSE "panic"

\* AfterPresent taking a suboptimal present for a good one
AfterPresentLenient(result) == IF result = "suboptimal" THEN "advance" ELSE AfterBackend(result, "advance")

\* AfterAcquire going on at the submission
AfterAcquireSubmit(result) == AfterBackend(result, "submit")

AfterAcquire(result) == AfterBackend(result, "fence")

AfterPresent(result) == AfterBackend(result, "advance")

\* VxDraw::new with image_count swapchain images: images and framebuffers, one
\* acquire semaphore for each image, and one present semaphore and one command
\* buffer for each in-flight frame, of which there are as many as images; caps is
\* the number of images the surface asks for at the next rebuild
NewSwapchain(image_count) ==
  [caps |-> image_count, images |-> image_count, framebuffers |-> image_count,
   acquire_image_semaphores |-> image_count, present_wait_semaphores |-> image_count,
   command_buffers |-> image_count]

\* the swapchain after window_resized_recreate_swapchain: self.images,
\* self.framebuffers and self.image_views are made anew for the images the backend
\* hands back; the semaphores and the command buffers are not touched
Rebuilt(chain) == [chain EXCEPT !.images = chain.caps, !.framebuffers = chain.caps]

\* the swap image indices an acquisition can return
SwapImages(chain) == 0..(chain.images - 1)

\* self.acquire_image_semaphores[swap_image.0 as usize] is in range
SemaphoreOf(chain, swap_image) == swap_image < chain.acquire_image_semaphores

\* no draw_frame call is in progress
NoCall == [frame |-> 0, recreated |-> FALSE, steps |-> <<>>, answer |-> <<>>, view |-> NoPerspective]

\* the call has done one more step
Did(step) == [call EXCEPT !.steps = Append(@, step)]

\* self.perspective = perspective
SetPerspective(matrix) ==
  /\ ~panicked
  /\ pc = "idle"
  /\ perspective' = matrix
  /\ ret' = [op |-> "set_perspective", args |-> <<matrix>>, result |-> <<>>]
  /\ UNCHANGED <<debtris, swapchain>>
  /\ UNCHANGED <<dyntexs, draw_order, gpu, layers, panicked, nlayers, arena_vars>>
  /\ UNCHANGED <<strtexs, streams, current_frame, max_frames_in_flight, resized_since_last_render,
                 frames_in_flight_fences, submitted, pc, recorded, call, nframes, nrestarts, ntouch>>

\* draw_frame: the entry of draw_frame_internal, where the local view gets the
\* perspective
DrawFrame ==
  /\ ~panicked
  /\ pc = "idle"
  /\ nframes < MaxFrames
  /\ nframes' = nframes + 1
  /\ resized_since_last_render' = FALSE
  /\ pc' = "acquire"
  /\ call' = [frame |-> current_frame, recreated |-> FALSE, steps |-> <<>>, answer |-> <<>>,
              view |-> perspective]
  /\ UNCHANGED <<dyntexs, draw_order, gpu, layers, ret, panicked, nlayers, arena_vars>>
  /\ UNCHANGED <<strtexs, streams, current_frame, max_frames_in_flight,
                 frames_in_flight_fences, submitted, recorded, nrestarts, ntouch>>
  /\ UNCHANGED <<perspective, debtris, swapchain>>

\* self.swapchain.acquire_image(..) and the match on its result
AcquireImage(result) ==
  /\ ~panicked
  /\ pc = "acquire"
  /\ Stale(result) => nrestarts < MaxRestarts
  /\ nrestarts' = IF Stale(result) THEN nrestarts + 1 ELSE nrestarts
  /\ call' = [Did("acquire") EXCEPT !.answer = <<"acquire", result>>]
  /\ \E swap_image \in SwapImages(swapchain) :
       LET after == IF result = "ok" /\ ~SemaphoreOf(swapchain, swap_image)
                    THEN "panic" ELSE AfterAcquire(result)
       IN /\ pc' = after
          /\ panicked' = (after = "panic")
  /\ UNCHANGED <<dyntexs, draw_order, gpu, layers, ret, nlayers, arena_vars>>
  /\ UNCHANGED <<strtexs, streams, current_frame, max_frames_in_flight, resized_since_last_render,
                 frames_in_flight_fences, submitted, recorded, nframes, ntouch>>
  /\ UNCHANGED <<perspective, debtris, swapchain>>

\* WindowResizedRecreateSwapchain of a rebuild that makes the in-flight frames anew
\* with the swapchain, so that the next frame is the first of them
WindowResizedRecreateSwapchainFirstFrame ==
  /\ ~panicked
  /\ pc = "recreate"
  /\ \A k \in 1..max_frames_in_flight : submitted[k] = 0
  /\ resized_since_last_render' = TRUE
  /\ current_frame' = 0
  /\ call' = [Did("recreate") EXCEPT !.recreated = TRUE]
  /\ pc' = "restart"
  /\ UNCHANGED <<dyntexs, draw_order, gpu, layers, ret, panicked, nlayers, arena_vars>>
  /\ UNCHANGED <<strtexs, streams, max_frames_in_flight,
                 frames_in_flight_fences, submitted, recorded, nframes, nrestarts, ntouch>>
  /\ UNCHANGED <<perspective, debtris>>
  /\ swapchain' = Rebuilt(swapchain)

\* window_resized_recreate_swapchain: the flag, and device.wait_idle(), which
\* returns when the GPU has retired all it was given
WindowResizedRecreateSwapchain ==
  /\ ~panicked
  /\ pc = "recreate"
  /\ \A k \in 1..max_frames_in_flight : submitted[k] = 0
  /\ resized_since_last_render' = TRUE
  /\ call' = [Did("recreate") EXCEPT !.recreated = TRUE]
  /\ pc' = "restart"
  /\ UNCHANGED <<dyntexs, draw_order, gpu, layers, ret, panicked, nlayers, arena_vars>>
  /\ UNCHANGED <<strtexs, streams, current_frame, max_frames_in_flight,
                 frames_in_flight_fences, submitted, recorded, nframes, nrestarts, ntouch>>
  /\ UNCHANGED <<perspective, debtris>>
  /\ swapchain' = Rebuilt(swapchain)

\* return self.draw_frame_internal(do_postproc, postproc): the entry once more
Restart ==
  /\ ~panicked
  /\ pc = "restart"
  /\ resized_since_last_render' = FALSE
  /\ call' = [call EXCEPT !.steps = <<>>, !.view = perspective]
  /\ pc' = "acquire"
  /\ UNCHANGED <<dyntexs, draw_order, gpu, layers, ret, panicked, nlayers, arena_vars>>
  /\ UNCHANGED <<strtexs, streams, current_frame, max_frames_in_flight,
                 frames_in_flight_fences, submitted, recorded, nframes, nrestarts, ntouch>>
  /\ UNCHANGED <<perspective, debtris, swapchain>>

\* FenceReady of a wait on a fence that nothing signals
FenceReadyNever(signalled) == FALSE

\* FenceReady of a wait that returns at once
FenceReadyAtOnce(signalled) == TRUE

\* wait_for_fence(fence, u64::max_value()) returns when the fence is signalled
FenceReady(signalled) == signalled

\* wait_for_fence and reset_fence on the fence of the current in-flight frame
WaitFence ==
  /\ ~panicked
  /\ pc = "fence"
  /\ FenceReady(frames_in_flight_fences[current_frame + 1])
  /\ frames_in_flight_fences' = [frames_in_flight_fences EXCEPT ![current_frame + 1] = FALSE]
  /\ call' = [call EXCEPT !.steps = @ \o <<"wait_fence", "reset_fence">>]
  /\ pc' = "record"
  /\ UNCHANGED <<dyntexs, draw_order, gpu, layers, ret, panicked, nlayers, arena_vars>>
  /\ UNCHANGED <<strtexs, streams, current_frame, max_frames_in_flight, resized_since_last_render,
                 submitted, recorded, nframes, nrestarts, ntouch>>
  /\ UNCHANGED <<perspective, debtris, swapchain>>

\* SingleStores without the test of the coordinates
SingleStoresAnywhere(width, height, write) == {<<write.x, write.y>>}

\* Single: if !(x < width && y < height) { continue }, else the pixel (x, y)
SingleStores(width, height, write) ==
  IF ~(write.x < width /\ write.y < height) THEN {} ELSE {<<write.x, write.y>>}

\* Block: for idx in y..y + h { for x in x..x + w { the pixel (x, idx) } }, with
\* no test of the coordinates
BlockStores(write) ==
  {<<x, idx>> : x \in write.x..(write.x + write.w - 1), idx \in write.y..(write.y + write.h - 1)}

\* the pixels a queued write stores to
Stores(tex, write) ==
  IF write.kind = "Single" THEN SingleStores(tex.width, tex.height, write) ELSE BlockStores(write)

\* QueuedWrites of the queue of the current in-flight frame only
QueuedWritesCurrent(tex, cf) == {tex.circular_writes[cf + 1][j] : j \in 1..Len(tex.circular_writes[cf + 1])}

\* for items in &strtex.circular_writes { for item in items }: the writes of every
\* queue
QueuedWrites(tex, cf) ==
  UNION {{tex.circular_writes[k][j] : j \in 1..Len(tex.circular_writes[k])} :
           k \in DOMAIN tex.circular_writes}

\* the queued writes of a streaming texture go to the image of the current
\* in-flight frame
ApplyWrites(tex, cf) ==
  [tex EXCEPT !.image[cf + 1] =
     @ \cup {[id |-> write.id, pixels |-> Stores(tex, write)] : write \in QueuedWrites(tex, cf)}]

\* the streaming textures after a recording: those the draw loop came to have
\* their queued writes in the image of the current in-flight frame
WritePixels(strs, events, cf) ==
  [i \in 1..Len(strs) |->
     IF \E e \in 1..Len(events) : events[e] = <<"pixels", StreamingTexture(i - 1)>>
     THEN ApplyWrites(strs[i], cf)
     ELSE strs[i]]

\* a pixel is inside the image of the texture
InsideImage(tex, pixel) == pixel[1] < tex.width /\ pixel[2] < tex.height

\* a store through slice::from_raw_parts_mut(target, ..) outside the mapped image
\* is undefined behaviour: the process may go on with memory overwritten, or end
StoredOutside(strs, cf) ==
  \E i \in 1..Len(strs) : \E r \in strs[i].image[cf + 1] : \E pixel \in r.pixels :
    ~InsideImage(strs[i], pixel)

\* the recording of the command buffer of the current in-flight frame: begin, the
\* draw loop with its uploads and its writes of pixels, end_render_pass, finish
Record ==
  /\ ~panicked
  /\ pc = "record"
  /\ LET r == RecordLoop(draw_order, 1, streams, current_frame, call.view)
         written == WritePixels(strtexs, r.events, current_frame)
     IN /\ streams' = r.streams
        /\ recorded' = FrameEvents(r.events, DebtrisEvents(debtris.hidden))
        /\ strtexs' = written
        /\ \E ended \in (IF StoredOutside(written, current_frame) THEN BOOLEAN ELSE {FALSE}) :
             /\ panicked' = (~r.ok \/ ended)
             /\ pc' = IF r.ok /\ ~ended THEN "submit" ELSE "panic"
  /\ call' = Did("record")
  /\ UNCHANGED <<dyntexs, draw_order, gpu, layers, ret, nlayers, arena_vars>>
  /\ UNCHANGED <<current_frame, max_frames_in_flight, resized_since_last_render,
                 frames_in_flight_fences, submitted, nframes, nrestarts, ntouch>>
  /\ UNCHANGED <<perspective, debtris, swapchain>>

\* queues[0].submit(submission, Some(fence of the current in-flight frame))
Submit ==
  /\ ~panicked
  /\ pc = "submit"
  /\ submitted' = [submitted EXCEPT ![current_frame + 1] = @ + 1]
  /\ call' = Did("submit")
  /\ pc' = "present"
  /\ UNCHANGED <<dyntexs, draw_order, gpu, layers, ret, panicked, nlayers, arena_vars>>
  /\ UNCHANGED <<strtexs, streams, current_frame, max_frames_in_flight, resized_since_last_render,
                 frames_in_flight_fences, recorded, nframes, nrestarts, ntouch>>
  /\ UNCHANGED <<perspective, debtris, swapchain>>

\* self.swapchain.present(..) and the match on its result
Present(result) ==
  /\ ~panicked
  /\ pc = "present"
  /\ Stale(result) => nrestarts < MaxRestarts
  /\ nrestarts' = IF Stale(result) THEN nrestarts + 1 ELSE nrestarts
  /\ call' = [Did("present") EXCEPT !.answer = <<"present", result>>]
  /\ pc' = AfterPresent(result)
  /\ panicked' = (AfterPresent(result) = "panic")
  /\ UNCHANGED <<dyntexs, draw_order, gpu, layers, ret, nlayers, arena_vars>>
  /\ UNCHANGED <<strtexs, streams, current_frame, max_frames_in_flight, resized_since_last_render,
                 frames_in_flight_fences, submitted, recorded, nframes, ntouch>>
  /\ UNCHANGED <<perspective, debtris, swapchain>>

\* NextFrameIndex without the modulo
NextFrameIndexUnwrapped(frame, n) == frame + 1

NextFrameIndex(frame, n) == (frame + 1) % n

\* one more draw_frame call has returned since the last mutation of each stream
OneMoreFrame(ss, n) ==
  [g \in DOMAIN ss |->
     [s \in DOMAIN ss[g] |-> [ss[g][s] EXCEPT !.frames = IF @ < n THEN @ + 1 ELSE @]]]

\* ClearScratch of the queue of the frame that was drawn
ClearScratchDrawn(strs, cf, n) ==
  [i \in 1..Len(strs) |->
     [strs[i] EXCEPT !.circular_writes =
        [k \in DOMAIN @ |-> IF k = ((cf + n - 1) % n) + 1 THEN <<>> ELSE @[k]]]]

\* for strtex in self.strtexs.iter_mut() { strtex.circular_writes[self.current_frame].clear() }
ClearScratch(strs, cf, n) ==
  [i \in 1..Len(strs) |->
     [strs[i] EXCEPT !.circular_writes = [k \in DOMAIN @ |-> IF k = cf + 1 THEN <<>> ELSE @[k]]]]

\* the end of draw_frame_internal: the next in-flight frame, its write queues
\* cleared, and the return
Advance ==
  /\ ~panicked
  /\ pc = "advance"
  /\ current_frame' = NextFrameIndex(current_frame, max_frames_in_flight)
  /\ strtexs' = ClearScratch(strtexs, NextFrameIndex(current_frame, max_frames_in_flight),
                             max_frames_in_flight)
  /\ streams' = OneMoreFrame(streams, max_frames_in_flight)
  /\ call' = NoCall
  /\ recorded' = <<>>
  /\ pc' = "idle"
  /\ UNCHANGED <<dyntexs, draw_order, gpu, layers, ret, panicked, nlayers, arena_vars>>
  /\ UNCHANGED <<max_frames_in_flight, resized_since_last_render,
                 frames_in_flight_fences, submitted, nframes, nrestarts, ntouch>>
  /\ UNCHANGED <<perspective, debtris, swapchain>>

\* the GPU retires a command buffer it was given for in-flight frame k - 1 and
\* signals the fence given with it
GpuRetire(k) ==
  /\ submitted[k] > 0
  /\ submitted' = [submitted EXCEPT ![k] = @ - 1]
  /\ frames_in_flight_fences' = [frames_in_flight_fences EXCEPT ![k] = TRUE]
  /\ UNCHANGED <<dyntexs, draw_order, gpu, layers, ret, panicked, nlayers, arena_vars>>
  /\ UNCHANGED <<strtexs, streams, current_frame, max_frames_in_flight, resized_since_last_render,
                 pc, recorded, call, nframes, nrestarts, ntouch>>
  /\ UNCHANGED <<perspective, debtris, swapchain>>

\* the layers whose streams a client can mutate
TouchableGens == {l.gen : l \in layers} \cup {strtexs[i].gen : i \in 1..Len(strtexs)}

\* ---- what the claims about the frame speak of ----
\* the layers of the draw calls among the events of a recording, in order
EventLayers(events, what) ==
  LET sel == SelectSeq(events, LAMBDA e : e[1] = what)
  IN [i \in 1..Len(sel) |-> sel[i][2]]

\* the entry of its kind's collection a tagged entry of the draw order names
TagLayer(tag, texs, strs) ==
  IF tag.kind = "DynamicTexture" THEN texs[tag.id + 1] ELSE strs[tag.id + 1]

\* the entries of a draw order whose layer is not hidden, in order
VisibleEntries(order, texs, strs) ==
  SelectSeq(order, LAMBDA tag : ~TagLayer(tag, texs, strs).hidden)

\* the entries of a draw order are in the order their layers were allocated
AllocationOrder(order, texs, strs) ==
  \A i \in 1..Len(order), j \in 1..Len(order) :
    i < j => TagLayer(order[i], texs, strs).gen < TagLayer(order[j], texs, strs).gen

\* the step records the command buffer of a frame
Recorded == pc = "record" /\ pc' = "submit"

\* the step is a call of the operation op of the client: no step of a draw_frame
\* call, which leaves "idle" or starts elsewhere, and no step of the GPU
ClientStep(op) == ret'.op = op /\ pc = "idle" /\ pc' = "idle" /\ submitted' = submitted

\* C11: add_layer, of either kind, puts the tagged entry of the new layer, the
\* last of its collection, at the end of the draw order; a recording binds and
\* draws the layers that are not hidden, each once, in the sequence of the draw
\* order; so layers are drawn in the order they were allocated as long as no
\* swap_layers has changed it.
C11_DrawnInListOrder ==
  [][/\ nlayers' = nlayers + 1 =>
          /\ draw_order' = Append(draw_order, draw_order'[Len(draw_order')])
          /\ LET new == draw_order'[Len(draw_order')]
             IN /\ new.id = (IF new.kind = "DynamicTexture" THEN Len(dyntexs') ELSE Len(strtexs')) - 1
                /\ TagLayer(new, dyntexs', strtexs').gen = nlayers'
                /\ Len(dyntexs') + Len(strtexs') = Len(dyntexs) + Len(strtexs) + 1
     /\ Recorded =>
          /\ EventLayers(recorded', "draw") = VisibleEntries(draw_order, dyntexs, strtexs)
          /\ EventLayers(recorded', "bind") = VisibleEntries(draw_order, dyntexs, strtexs)
     /\ (AllocationOrder(draw_order, dyntexs, strtexs) /\ ~ClientStep("swap_layers"))
          => AllocationOrder(draw_order', dyntexs', strtexs')]_vars

\* a streaming texture and then a dynamic texture were added, both with id 0, and
\* a frame has drawn them in this order
C11_Witness ==
  /\ pc = "submit"
  /\ draw_order = <<StreamingTexture(0), DynamicTexture(0)>>
  /\ EventLayers(recorded, "draw") = <<StreamingTexture(0), DynamicTexture(0)>>

EventsOf(events, tag) == SelectSeq(events, LAMBDA e : e[2] = tag)

\* C13: a dynamic-texture layer that hide has hidden stays hidden until a show of
\* it; a recording has no bind, no upload and no draw of a hidden layer, and one
\* bind and one draw of every other layer of the draw order; hide and show change
\* the flag of their layer and nothing else: not the draw order, not a host
\* buffer, slot count or free list, not a stream.
C13_HiddenNotDrawn ==
  [][/\ \A i \in 1..Len(dyntexs) :
          (/\ dyntexs[i].hidden
           /\ i <= Len(dyntexs') /\ dyntexs'[i].gen = dyntexs[i].gen
           /\ ~(ClientStep("show") /\ ret'.args[1].id = i - 1))
            => dyntexs'[i].hidden
     /\ Recorded =>
          \A p \in 1..Len(draw_order) :
            LET tag == draw_order[p]
            IN IF TagLayer(tag, dyntexs, strtexs).hidden
               THEN EventsOf(recorded', tag) \in {<<>>, << <<"pixels", tag>> >>}
               ELSE /\ Cardinality({e \in 1..Len(recorded') : recorded'[e][1] = "draw" /\ recorded'[e][2] = tag}) = 1
                    /\ Cardinality({e \in 1..Len(recorded') : recorded'[e] = <<"bind", tag>>}) = 1
     /\ \A l \in layers :
          ((ClientStep("hide") \/ ClientStep("show")) /\ ret'.args = <<l>>) =>
            /\ ~panicked'
            /\ draw_order' = draw_order
            /\ streams' = streams
            /\ strtexs' = strtexs
            /\ dyntexs' = [dyntexs EXCEPT ![l.id + 1].hidden = (ret'.op = "hide")]]_vars

\* a frame was recorded while the dynamic texture, first in the draw order, was
\* hidden: only the streaming texture after it is drawn
C13_Witness ==
  /\ pc = "submit"
  /\ draw_order = <<DynamicTexture(0), StreamingTexture(0)>>
  /\ dyntexs[1].hidden
  /\ ret.op = "hide"
  /\ EventLayers(recorded, "draw") = <<StreamingTexture(0)>>

\* the step is the return of a draw_frame call
Returned == pc = "advance" /\ pc' = "idle"

\* C14: when a draw_frame call returns and as many calls as there are in-flight
\* frames have returned since the last mutation of a stream of a visible layer,
\* whatever the backend answered, the touch counter of the stream is 0 and each of
\* its in-flight GPU buffers holds what the host buffer holds; a recording takes
\* exactly 1 from the counter of each stream it uploads.
C14_AllSlotsUploaded ==
  [][/\ Returned =>
          \A g \in TouchableGens, s \in StreamSet :
            streams'[g][s].frames >= max_frames_in_flight =>
              /\ streams'[g][s].touch = 0
              /\ \A k \in 1..max_frames_in_flight : streams'[g][s].gpu[k] = streams'[g][s].host
     /\ Recorded =>
          \A g \in TouchableGens, s \in StreamSet :
            /\ streams[g][s].touch # 0 =>
                 /\ streams'[g][s].touch = streams[g][s].touch - 1
                 /\ streams'[g][s].gpu[current_frame + 1] = streams[g][s].host
            /\ streams[g][s].touch = 0 => streams'[g][s] = streams[g][s]]_vars

\* the steps of a frame attempt that goes through, before the index is advanced
FrameSteps == <<"acquire", "wait_fence", "reset_fence", "record", "submit", "present">>

IsPrefix(s, q) == Len(s) <= Len(q) /\ s = SubSeq(q, 1, Len(s))

\* the steps a frame attempt may have done: a part of FrameSteps from its start,
\* then possibly the rebuild of the swapchain after an acquire or a present
AttemptSteps(steps) ==
  \/ IsPrefix(steps, FrameSteps)
  \/ steps \in {<<"acquire", "recreate">>, FrameSteps \o <<"recreate">>}

\* C15: a frame attempt does its steps in the order acquire, wait on the fence,
\* reset the fence, record, submit, present; the command buffer is given to the
\* GPU only after the recording, present comes only after the submission, and the
\* in-flight index changes only in the step after a present, at the return.
C15_StepOrder ==
  [][/\ AttemptSteps(call'.steps)
     /\ submitted'[current_frame + 1] > submitted[current_frame + 1] =>
          call.steps = <<"acquire", "wait_fence", "reset_fence", "record">>
     /\ (pc = "present" /\ pc' # pc) =>
          call.steps = <<"acquire", "wait_fence", "reset_fence", "record", "submit">>
     /\ (current_frame' # current_frame \/ Returned) =>
          (Returned /\ call.steps = FrameSteps)]_vars

\* after a rebuild of the swapchain, a second attempt of the same call has gone
\* through all the steps and is about to advance the index
C15_Witness ==
  /\ pc = "advance"
  /\ call.recreated
  /\ call.steps = FrameSteps
  /\ submitted[current_frame + 1] = 1

\* a step that calls the backend: the acquisition or present
BackendStep == pc \in {"acquire", "present"} /\ pc' # pc

\* C16: a stale result (suboptimal or out of date) of the acquisition or of present
\* leads to the rebuild of the swapchain and then to the start of a new attempt,
\* which begins at the acquisition with none of the steps done; the call returns
\* only from an attempt that did all the steps and whose present was not stale.
C16_StaleRestarts ==
  [][/\ BackendStep =>
          /\ call'.answer[1] = pc
          /\ Stale(call'.answer[2]) => pc' = "recreate"
     /\ (pc = "recreate" /\ pc' # pc) =>
          (pc' = "restart" /\ call'.recreated /\ ~panicked')
     /\ (pc = "restart" /\ pc' # pc) =>
          (pc' = "acquire" /\ call'.steps = <<>> /\ call'.answer = call.answer)
     /\ Returned =>
          /\ call.answer = <<"present", "ok">>
          /\ call.steps = FrameSteps
          /\ ~panicked']_vars

\* after a stale present and the rebuild, the call is at the acquisition again, with
\* the command buffer it had submitted retired
C16_Witness ==
  /\ pc = "acquire"
  /\ call.answer = <<"present", "suboptimal">>
  /\ call.steps = <<>>
  /\ call.recreated
  /\ submitted[current_frame + 1] = 0

\* C17: the in-flight index is below the count of in-flight frames; it changes
\* only at the return of a draw_frame call, which leaves it one above, modulo the
\* count, what it was when the call was made, whatever restarts the call made.
C17_IndexAdvance ==
  [][/\ current_frame' \in 0..(max_frames_in_flight - 1)
     /\ IF Returned
        THEN current_frame' = (call.frame + 1) % max_frames_in_flight
        ELSE current_frame' = current_frame
     /\ pc # "idle" => call'.frame = call.frame \/ Returned
     /\ (pc = "idle" /\ pc' # "idle") => call'.frame = current_frame]_vars

\* with two in-flight frames, two calls, one of them with a restart, took the
\* index to 1 and back to 0
C17_Witness ==
  /\ pc = "idle"
  /\ max_frames_in_flight = 2
  /\ nframes = 2
  /\ nrestarts = 1
  /\ current_frame = 0
  /\ ~panicked

\* the places of the events of a kind in a recording
EventPlaces(events, what) == {e \in 1..Len(events) : events[e][1] = what}

\* C18 as stated: in a recording, every upload comes before every draw call, of
\* any layer.
C18_UploadsBeforeAnyDraw ==
  [][Recorded =>
       \A u \in EventPlaces(recorded', "upload"), d \in EventPlaces(recorded', "draw") : u < d]_vars

\* C18, amended: in a recording, the uploads of a layer's streams come before the
\* draw call of that layer (and after the draw calls of the layers before it in the
\* draw order); the GPU buffers of the streams are written in the recording only,
\* so before the command buffer is submitted.
C18_UploadsBeforeOwnDraw ==
  [][/\ Recorded =>
          \A u \in EventPlaces(recorded', "upload") :
            /\ \E d \in EventPlaces(recorded', "draw") : d > u /\ recorded'[d][2] = recorded'[u][2]
            /\ \A d \in EventPlaces(recorded', "draw") : d < u => recorded'[d][2] # recorded'[u][2]
            /\ LET g == TagLayer(recorded'[u][2], dyntexs, strtexs).gen
                   s == recorded'[u][3]
               IN streams'[g][s].gpu[current_frame + 1] = streams[g][s].host
     /\ \A g \in DOMAIN streams, s \in StreamSet :
          streams'[g][s].gpu # streams[g][s].gpu =>
            (Recorded /\ \E u \in EventPlaces(recorded', "upload") :
                           recorded'[u][3] = s /\ TagLayer(recorded'[u][2], dyntexs, strtexs).gen = g)
     /\ submitted' # submitted => streams' = streams]_vars

\* a recording with the draw call of the first layer before an upload of the second
C18_Witness ==
  /\ pc = "submit"
  /\ \E d \in EventPlaces(recorded, "draw"), u \in EventPlaces(recorded, "upload") :
       d < u /\ recorded[d][2] # recorded[u][2]

\* C19: the GPU holds at most one command buffer per in-flight frame that it has
\* not retired; the host records the command buffer of an in-flight frame, uploads
\* into its stream buffers and writes its pixels only in the recording, after the
\* wait on the fence of that frame in the same attempt, and while the GPU holds no
\* command buffer of that frame.
C19_FenceGuardsSlot ==
  [][/\ \A k \in 1..max_frames_in_flight : submitted'[k] <= 1
     /\ (pc = "record" /\ pc' # pc) =>
          /\ submitted[current_frame + 1] = 0
          /\ call.steps = <<"acquire", "wait_fence", "reset_fence">>
     /\ \A g \in DOMAIN streams, s \in StreamSet, k \in 1..max_frames_in_flight :
          streams'[g][s].gpu[k] # streams[g][s].gpu[k] =>
            /\ pc = "record"
            /\ k = current_frame + 1
            /\ submitted[k] = 0
     /\ recorded' # recorded => (pc = "record" \/ Returned)
     /\ (pc = "fence" /\ pc' # pc) =>
          /\ submitted[current_frame + 1] = 0
          /\ frames_in_flight_fences[current_frame + 1]]_vars

\* the only in-flight frame is recorded a second time, with an upload, after the
\* GPU has retired its first command buffer
C19_Witness ==
  /\ pc = "submit"
  /\ max_frames_in_flight = 1
  /\ nframes = 2
  /\ submitted = <<0>>
  /\ EventPlaces(recorded, "upload") # {}

\* C20: when a draw_frame call returns, resized_since_last_render is true if the
\* call rebuilt the swapchain and false if not, and it stays so until the next
\* draw_frame call.
C20_ResizedFlag ==
  [][/\ Returned => resized_since_last_render' = call.recreated
     /\ (pc = "idle" /\ pc' = "idle") => resized_since_last_render' = resized_since_last_render]_vars

\* C21: a draw_frame call that is made comes to its end, by its return or by a
\* panic, given that the backend stops reporting stale results; a stale report is
\* followed by one rebuild of the swapchain and then one new attempt, and there is
\* no rebuild and no new attempt without a stale report before it.
C21_Terminates ==
  /\ (pc # "idle") ~> (pc = "idle" \/ panicked)
  /\ [][/\ (BackendStep /\ Stale(call'.answer[2])) =>
             (pc' = "recreate" /\ nrestarts' = nrestarts + 1)
        /\ (pc = "recreate" /\ pc' # pc) =>
             (pc' = "restart" /\ call'.steps = Append(call.steps, "recreate"))
        /\ (pc = "restart" /\ pc' # pc) => pc' = "acquire"
        /\ resized_since_last_render' =>
             (resized_since_last_render \/ (pc = "recreate" /\ Stale(call.answer[2])))
        /\ (pc' = "acquire" /\ pc # "acquire") =>
             \/ pc = "idle"
             \/ (pc = "restart" /\ call.steps[Len(call.steps)] = "recreate"
                   /\ Len(SelectSeq(call.steps, LAMBDA s : s = "recreate")) = 1)]_vars

\* a call that had a stale report has returned
C21_Witness ==
  /\ pc = "idle"
  /\ nframes >= 1
  /\ nrestarts >= 1
  /\ ~panicked

\* C22: a result of the acquisition or of present that is an error, and not a
\* stale swapchain, makes draw_frame panic: there is no rebuild and no new attempt,
\* and after the panic the call gives nothing more to the GPU, presents nothing
\* and leaves the in-flight index as it was.
C22_ErrorIsFatal ==
  [][/\ (BackendStep /\ call'.answer[2] = "error") =>
          /\ panicked' /\ pc' = "panic"
          /\ submitted' = submitted
          /\ current_frame' = current_frame
          /\ nrestarts' = nrestarts
          /\ resized_since_last_render' = resized_since_last_render
     /\ panicked =>
          /\ panicked' /\ pc' = pc /\ call' = call
          /\ current_frame' = current_frame
          /\ resized_since_last_render' = resized_since_last_render
          /\ \A k \in 1..max_frames_in_flight : submitted'[k] <= submitted[k]]_vars

\* present gave an error after the submission of the frame
C22_Witness ==
  /\ panicked
  /\ pc = "panic"
  /\ call.answer = <<"present", "error">>
  /\ call.steps = FrameSteps

\* ---- what the claims about the fields of a record speak of ----
\* the word of field f (from 1: x, y, depth, uv0, uv1, translation0, translation1,
\* rotation, scale, color) of vertex v (from 0) of a slot
Field(buf, slot, v, f) == buf[slot * 4 * VertexWords + v * VertexWords + f]

\* the fields that are one value of the sprite, the same for its 4 vertices
SharedFields == {3, 6, 7, 8, 9}

\* C23: the 4 vertices of every live sprite hold the same depth, translation,
\* rotation and scale.
C23_VerticesAgree ==
  \A h \in BagToSet(handles) :
    (LiveSprite(h) /\ HasLayer(h.layer)) =>
      /\ (h.slot + 1) * 4 * VertexWords <= Len(Tex(h.layer).mockbuffer)
      /\ \A v \in 1..3, f \in SharedFields :
           Field(Tex(h.layer).mockbuffer, h.slot, v, f) = Field(Tex(h.layer).mockbuffer, h.slot, 0, f)

\* a live sprite made with rotation 2 whose position was set, after a
\* sprite_rotate_all by 3 of its layer
C23_Witness ==
  /\ ret.op = "sprite_rotate_all"
  /\ \E h \in BagToSet(handles) :
       /\ LiveSprite(h) /\ h.layer = ret.args[1].id
       /\ Field(Tex(h.layer).mockbuffer, h.slot, 3, 8) = 5
       /\ Field(Tex(h.layer).mockbuffer, h.slot, 3, 6) = 7
       /\ Field(Tex(h.layer).mockbuffer, h.slot, 3, 9) = 2

\* the slots a buffer holds
Slots(buf) == 0..((Len(buf) \div (4 * VertexWords)) - 1)

\* a call of sprite_translate_all or sprite_rotate_all is the step taken
AllStep(op) == ret'.op = op /\ nsets' = nsets + 1

\* every field of every vertex of the layer's buffer is what it was, plus the
\* delta the field has in deltas (a function from some of the fields)
FieldsMoved(old, new, deltas) ==
  /\ Len(new.mockbuffer) = Len(old.mockbuffer)
  /\ \A s \in Slots(old.mockbuffer), v \in 0..3, f \in 1..VertexWords :
       Field(new.mockbuffer, s, v, f) =
         IF f \in DOMAIN deltas
         THEN Field(old.mockbuffer, s, v, f) + deltas[f]
         ELSE Field(old.mockbuffer, s, v, f)
  /\ new.removed = old.removed
  /\ new.count = old.count
  /\ new.hidden = old.hidden

\* C24: sprite_translate_all adds the delta to the translation of every vertex of
\* every slot of the layer's buffer, the slots of removed sprites among them, and
\* sprite_rotate_all adds its delta to the rotation of every one; they change no
\* other field, so not the scale, and not the free list, the slot count, another
\* layer, or what the client holds.
C24_AllSlotsMoved ==
  [][/\ AllStep("sprite_translate_all") =>
          LET id == ret'.args[1].id
              d == ret'.args[2]
          IN /\ FieldsMoved(dyntexs[id + 1], dyntexs'[id + 1], (6 :> d[1]) @@ (7 :> d[2]))
             /\ \A i \in 1..Len(dyntexs) : i # id + 1 => dyntexs'[i] = dyntexs[i]
     /\ AllStep("sprite_rotate_all") =>
          LET id == ret'.args[1].id
          IN /\ FieldsMoved(dyntexs[id + 1], dyntexs'[id + 1], (8 :> ret'.args[2]))
             /\ \A i \in 1..Len(dyntexs) : i # id + 1 => dyntexs'[i] = dyntexs[i]
     /\ (AllStep("sprite_translate_all") \/ AllStep("sprite_rotate_all")) =>
          /\ Len(dyntexs') = Len(dyntexs)
          /\ handles' = handles /\ layers' = layers /\ draw_order' = draw_order
          /\ ~panicked']_vars

\* a layer that holds a live sprite and the slot of a removed one was translated:
\* the removed slot has moved and its scale is zero
C24_Witness ==
  /\ ret.op = "sprite_translate_all"
  /\ LET tex == Tex(ret.args[1].id)
     IN /\ Len(tex.removed) = 1
        /\ tex.count = 2
        /\ Field(tex.mockbuffer, tex.removed[1], 0, 9) = 0
        /\ Field(tex.mockbuffer, tex.removed[1], 0, 6) = 4
        /\ \E h \in BagToSet(handles) :
             /\ LiveSprite(h) /\ h.layer = ret.args[1].id
             /\ Field(tex.mockbuffer, h.slot, 0, 9) # 0

\* the uv of vertex v (from 0) of a sprite made with the rectangle
\* (uv_begin, uv_end), as add lays the corners out
AddUv(uv_begin, uv_end, v) ==
  Corners([SpriteDefault EXCEPT !.uv_begin = uv_begin, !.uv_end = uv_end])[v + 1][2]

\* a call of set_uv is the step taken
SetUvStep == ret'.op = "set_uv" /\ nsets' = nsets + 1

\* C25: a set_uv of a sprite writes to its 4 vertices the uv that add writes for
\* a sprite made with that rectangle, and nothing else; so a set_uv with the
\* rectangle the sprite was made with, right after the add, leaves every record
\* as add wrote it, and a set_uv with (0,0)-(1,1) does so for a default sprite.
C25_SetUvOwnRect ==
  [][SetUvStep =>
       LET h == ret'.args[1]
           old == dyntexs[h.layer + 1]
           new == dyntexs'[h.layer + 1]
       IN /\ ~panicked'
          /\ Len(new.mockbuffer) = Len(old.mockbuffer)
          /\ \A s \in Slots(old.mockbuffer), v \in 0..3, f \in 1..VertexWords :
               Field(new.mockbuffer, s, v, f) =
                 IF s = h.slot /\ f \in {4, 5}
                 THEN AddUv(ret'.args[2], ret'.args[3], v)[f - 3]
                 ELSE Field(old.mockbuffer, s, v, f)
          /\ (ret.op = "add" /\ ret.result = h
                /\ ret'.args[2] = ret.args[2].uv_begin /\ ret'.args[3] = ret.args[2].uv_end)
               => dyntexs' = dyntexs]_vars

\* set_uv with (0,0)-(1,1) was called for a default sprite right after its add
C25_Witness ==
  /\ ret.op = "set_uv"
  /\ ret.args[2] = <<0, 0>> /\ ret.args[3] = <<1, 1>>
  /\ nadds = 1 /\ nsets = 1
  /\ LET h == ret.args[1]
     IN /\ LiveSprite(h)
        /\ \A v \in 0..3 :
             /\ Field(Tex(h.layer).mockbuffer, h.slot, v, 9) = SpriteDefault.scale
             /\ Field(Tex(h.layer).mockbuffer, h.slot, v, 4) = Corners(SpriteDefault)[v + 1][2][1]
             /\ Field(Tex(h.layer).mockbuffer, h.slot, v, 5) = Corners(SpriteDefault)[v + 1][2][2]
        /\ Field(Tex(h.layer).mockbuffer, h.slot, 1, 5) = 1
        /\ Field(Tex(h.layer).mockbuffer, h.slot, 1, 4) = 0

\* set_uv on the collection: the layer at the handle's id, if there is one, with
\* the entry written
SetUvOn(texs, handle, uv_begin, uv_end) ==
  IF handle.layer < Len(texs)
  THEN LET tex == texs[handle.layer + 1]
       IN [texs EXCEPT ![handle.layer + 1].mockbuffer =
             UvEntry(tex.mockbuffer, tex, handle.slot, uv_begin, uv_end).buf]
  ELSE texs

\* one set_uv call per entry, in the order of the batch
RECURSIVE SetUvEach(_, _, _)
SetUvEach(texs, hs, rects) ==
  IF hs = <<>> THEN texs
  ELSE SetUvEach(SetUvOn(texs, hs[1], rects[1][1], rects[1][2]), Tail(hs), Tail(rects))

\* a call of set_uvs with a batch whose entries are all of one layer that is in
\* the collection
OneLayerBatch ==
  /\ ret'.op = "set_uvs"
  /\ nsets' = nsets + Len(ret'.args[1])
  /\ ret'.args[1] # <<>>
  /\ HasLayer(ret'.args[1][1].layer)
  /\ \A i \in 1..Len(ret'.args[1]) : ret'.args[1][i].layer = ret'.args[1][1].layer

\* C26: set_uvs with a batch of entries of one layer that is in the collection
\* leaves the collection as one set_uv call per entry does, in the order of the
\* batch, and does not panic.
C26_BatchAsCalls ==
  [][OneLayerBatch =>
       /\ dyntexs' = SetUvEach(dyntexs, ret'.args[1], ret'.args[2])
       /\ ~panicked']_vars

\* a batch of two entries with different rectangles was set, the second of them
\* for a sprite that holds it now
C26_Witness ==
  /\ ret.op = "set_uvs"
  /\ ~panicked
  /\ Len(ret.args[1]) = 2
  /\ ret.args[2][1] # ret.args[2][2]
  /\ LET h == ret.args[1][2]
     IN /\ LiveSprite(h)
        /\ Field(Tex(h.layer).mockbuffer, h.slot, 2, 4) = ret.args[2][2][2][1]
        /\ Field(Tex(h.layer).mockbuffer, h.slot, 2, 5) = ret.args[2][2][2][2]
        /\ Field(Tex(h.layer).mockbuffer, h.slot, 0, 4) = ret.args[2][2][1][1]

\* C27: the perspective constant pushed for a layer that is drawn is the layer's
\* fixed perspective if it was made with one, and otherwise the perspective of
\* VxDraw, which is, through the whole draw_frame call, what it was when the call
\* was made; set_perspective changes no layer.
C27_PerspectivePushed ==
  [][/\ Recorded =>
          /\ \A d \in EventPlaces(recorded', "draw") :
               \E e \in EventPlaces(recorded', "push") : e < d /\ recorded'[e][2] = recorded'[d][2]
          /\ \A e \in EventPlaces(recorded', "push") :
               LET tex == TagLayer(recorded'[e][2], dyntexs, strtexs)
               IN recorded'[e][3] = IF tex.fixed_perspective # NoPerspective
                                    THEN tex.fixed_perspective
                                    ELSE perspective
     /\ pc # "idle" => perspective' = perspective
     /\ (pc = "idle" /\ pc' # "idle") => call'.view = perspective
     /\ ClientStep("set_perspective") =>
          /\ perspective' = ret'.args[1]
          /\ dyntexs' = dyntexs /\ strtexs' = strtexs /\ draw_order' = draw_order]_vars

\* after a set_perspective, a frame was recorded with a layer that has a fixed
\* perspective and a layer that has none
C27_Witness ==
  /\ pc = "submit"
  /\ perspective = "m1"
  /\ \E e \in EventPlaces(recorded, "push"), f \in EventPlaces(recorded, "push") :
       /\ recorded[e][3] = "m1"
       /\ recorded[f][3] = "m2"
       /\ TagLayer(recorded[f][2], dyntexs, strtexs).fixed_perspective = "m2"

\* how many times a slot is on a free list
Times(removed, slot) == Cardinality({i \in 1..Len(removed) : removed[i] = slot})

\* the step is an add on the layer l
AddOn(l) == ret'.op = "add" /\ ret'.args[1] = l /\ nadds' = nadds + 1

\* the step is the remove_sprite of the handle h
RemoveOf(h) == ret'.op = "remove_sprite" /\ ret'.args[1] = h /\ handles' # handles

VertexRecord(sprite, v) ==
  LET point == Corners(sprite)[v + 1][1]
      uv == Corners(sprite)[v + 1][2]
  IN <<point[1], point[2], sprite.depth, uv[1], uv[2],
       sprite.translation[1], sprite.translation[2], sprite.rotation, sprite.scale,
       ColorWord(sprite.colors[v + 1])>>

\* C30: when add returns, every field of the 4 vertices of the slot it returns is
\* the field of the record of its sprite, whether the slot was taken from the free
\* list or appended, and whatever the slot held before; the scale is the scale of
\* the sprite; every other slot of the buffer is as it was.
C30_AddWritesRecord ==
  [][\A l \in layers :
       (HasLayer(l.id) /\ AddOn(l) /\ ~panicked') =>
         LET old == Tex(l.id).mockbuffer
             new == dyntexs'[l.id + 1].mockbuffer
             slot == ret'.result.slot
             sprite == ret'.args[2]
         IN /\ slot \in Slots(new)
            /\ \A v \in 0..3, f \in 1..VertexWords :
                 Field(new, slot, v, f) = VertexRecord(sprite, v)[f]
            /\ \A v \in 0..3 : Field(new, slot, v, 9) = sprite.scale
            /\ \A s \in Slots(old) \ {slot}, v \in 0..3, f \in 1..VertexWords :
                 Field(new, s, v, f) = Field(old, s, v, f)]_vars

\* the only slot of a layer was released, with the zero scale of remove_sprite and
\* the translation given to its first sprite after that was added, and a second
\* add has taken it for the other sprite
C30_Witness ==
  /\ ret.op = "add"
  /\ ~panicked
  /\ nadds = 2
  /\ nsets = 1
  /\ ret.args[2] = SpriteDefault
  /\ ret.result.slot = 0
  /\ Tex(ret.result.layer).count = 1
  /\ Tex(ret.result.layer).removed = <<>>
  /\ \A v \in 0..3 :
       /\ Field(Tex(ret.result.layer).mockbuffer, 0, v, 9) = 1
       /\ Field(Tex(ret.result.layer).mockbuffer, 0, v, 6) = 0

\* the layer at the id of h after a setter of h that writes the values of the
\* function written (from some of the fields): nothing but the buffer differs; if
\* the call returns, the fields of written hold its values in the 4 vertices of
\* the slot of h and every other word is as it was; if it panics, so is every word
SlotWritten(h, old, new, written, panics) ==
  /\ [new EXCEPT !.mockbuffer = old.mockbuffer] = old
  /\ Len(new.mockbuffer) = Len(old.mockbuffer)
  /\ panics => new = old
  /\ ~panics =>
       /\ h.slot \in Slots(old.mockbuffer)
       /\ \A s \in Slots(old.mockbuffer), v \in 0..3, f \in 1..VertexWords :
            Field(new.mockbuffer, s, v, f) =
              IF s = h.slot /\ f \in DOMAIN written THEN written[f]
              ELSE Field(old.mockbuffer, s, v, f)

\* C31: set_position(h, p) that returns has written p to the translation of the 4
\* vertices of the slot of h, and set_rotation(h, r) has written r to their
\* rotation, in the layer at the layer id of h; no other field of the slot, no word
\* of another slot or layer, no free list, no slot count and no draw order changes,
\* and nothing at all when there is no layer at the id.
C31_SettersOverwrite ==
  [][\A h \in BagToSet(handles) :
       MutatedWith(h, {"set_position", "set_rotation"}) =>
         /\ draw_order' = draw_order
         /\ Len(dyntexs') = Len(dyntexs)
         /\ \A i \in 1..Len(dyntexs) : i # h.layer + 1 => dyntexs'[i] = dyntexs[i]
         /\ ~HasLayer(h.layer) => ~panicked'
         /\ HasLayer(h.layer) =>
              SlotWritten(h, Tex(h.layer), dyntexs'[h.layer + 1],
                          IF ret'.op = "set_position"
                          THEN (6 :> ret'.args[2][1]) @@ (7 :> ret'.args[2][2])
                          ELSE (8 :> ret'.args[2]),
                          panicked')]_vars

\* the position of the first sprite of a layer was set, and the layer holds
\* another sprite as it was made
C31_Witness ==
  /\ ret.op = "set_position"
  /\ ~panicked
  /\ LiveSprite(ret.args[1])
  /\ ret.args[1].slot = 0
  /\ LET buf == Tex(ret.args[1].layer).mockbuffer
     IN /\ \A v \in 0..3 :
             /\ <<Field(buf, 0, v, 6), Field(buf, 0, v, 7)>> = ret.args[2]
             /\ Field(buf, 0, v, 8) = SpriteOther.rotation
             /\ Field(buf, 0, v, 9) = SpriteOther.scale
        /\ \E h \in BagToSet(handles) :
             /\ LiveSprite(h) /\ h.layer = ret.args[1].layer /\ h.slot # ret.args[1].slot
             /\ \A v \in 0..3, f \in 1..VertexWords : Field(buf, h.slot, v, f) = VertexRecord(SpriteOther, v)[f]

\* C32: for every layer of the draw order that is not hidden, the recording has one
\* indexed draw, over 6 indices for each slot of the layer's host buffer; the slots
\* are those of the slot count, the released ones among them, and remove_sprite
\* takes none away.
C32_IndexedDrawCoversSlots ==
  [][/\ Recorded =>
          \A p \in 1..Len(draw_order) :
            LET tag == draw_order[p]
                tex == TagLayer(tag, dyntexs, strtexs)
                draws == {d \in EventPlaces(recorded', "draw") : recorded'[d][2] = tag}
            IN ~tex.hidden =>
                 /\ Cardinality(draws) = 1
                 /\ \A d \in draws :
                      recorded'[d][3] =
                        IF tag.kind = "DynamicTexture"
                        THEN 6 * Cardinality(Slots(tex.mockbuffer))
                        ELSE 0
                 /\ tag.kind = "DynamicTexture" =>
                      /\ Cardinality(Slots(tex.mockbuffer)) = tex.count
                      /\ \A i \in 1..Len(tex.removed) : tex.removed[i] \in Slots(tex.mockbuffer)
     /\ \A h \in BagToSet(handles) :
          (RemoveOf(h) /\ HasLayer(h.layer)) =>
            /\ Slots(dyntexs'[h.layer + 1].mockbuffer) = Slots(Tex(h.layer).mockbuffer)
            /\ dyntexs'[h.layer + 1].count = Tex(h.layer).count]_vars

\* a layer with two slots, one of them released, was recorded with 12 indices
C32_Witness ==
  /\ pc = "submit"
  /\ \E d \in EventPlaces(recorded, "draw") :
       LET tex == TagLayer(recorded[d][2], dyntexs, strtexs)
       IN /\ recorded[d][2].kind = "DynamicTexture"
          /\ recorded[d][3] = 12
          /\ tex.count = 2
          /\ Len(tex.removed) = 1

\* the ids of the writes in a queue
QueueIds(queue) == {queue[j].id : j \in 1..Len(queue)}

\* the write with the id has gone to the image k of the streaming texture
Reached(tex, id, k) == \E r \in tex.image[k] : r.id = id

\* C33: the end of a frame clears, in every streaming texture, the write queue of
\* the in-flight frame that is current from then on, and no other queue; no other
\* step takes a write out of a queue; a recording applies every queued write to
\* the image of the current in-flight frame, and to no other image; and every
\* write that is cleared has gone to every one of the N images.
C33_QueueClearedWhenCurrent ==
  [][\A i \in 1..Len(strtexs) :
       LET old == strtexs[i]
           new == strtexs'[i]
           n == max_frames_in_flight
       IN /\ Returned =>
               /\ \A k \in 1..n :
                    new.circular_writes[k] =
                      IF k = current_frame' + 1 THEN <<>> ELSE old.circular_writes[k]
               /\ \A id \in QueueIds(old.circular_writes[current_frame' + 1]), k \in 1..n :
                    Reached(old, id, k)
               /\ new.image = old.image
          /\ ~Returned =>
               \A k \in 1..n : QueueIds(old.circular_writes[k]) \subseteq QueueIds(new.circular_writes[k])
          /\ Recorded =>
               /\ \A k \in 1..n : \A id \in QueueIds(old.circular_writes[k]) :
                    Reached(new, id, current_frame + 1)
               /\ \A k \in 1..n : k # current_frame + 1 => new.image[k] = old.image[k]
          /\ ClientStep("strtex_write") =>
               \A k \in 1..n : k # current_frame + 1 => new.circular_writes[k] = old.circular_writes[k]]_vars

\* two frames were drawn with two in-flight frames after a write was queued: it
\* has gone to both images and is in no queue
C33_Witness ==
  /\ pc = "idle"
  /\ max_frames_in_flight = 2
  /\ nframes = 2
  /\ \E i \in 1..Len(strtexs) :
       /\ \A k \in 1..2 : strtexs[i].circular_writes[k] = <<>>
       /\ \A k \in 1..2 : Reached(strtexs[i], 1, k)

\* C34: a recording that takes 1 from the touch counter of a stream uploads to an
\* in-flight GPU buffer that has not had the host buffer since its last mutation,
\* so that the uploads between the mutation and the counter at 0 go to N distinct
\* buffers; and when the counter is 0 every in-flight GPU buffer of the stream
\* holds what the host buffer holds.
C34_UploadsToDistinctSlots ==
  [][\A g \in TouchableGens, s \in StreamSet :
       /\ (Recorded /\ streams'[g][s].touch < streams[g][s].touch) =>
            streams[g][s].gpu[current_frame + 1] # streams[g][s].host
       /\ streams'[g][s].touch = 0 =>
            \A k \in 1..max_frames_in_flight : streams'[g][s].gpu[k] = streams'[g][s].host]_vars

\* the slots of the layer l in the collection texs, with the handles hs: each slot
\* below the count is held by one live handle of the layer or is once on the free
\* list, the free list names slots below the count only, and the host buffer is
\* one sprite long for each slot
SlotsAccounted(texs, hs, l) ==
  LET tex == texs[l.id + 1] IN
    /\ \A slot \in 0..(tex.count - 1) :
         CopiesIn([layer |-> l.id, slot |-> slot, gen |-> l.gen], hs)
           + Times(tex.removed, slot) = 1
    /\ \A i \in 1..Len(tex.removed) : tex.removed[i] < tex.count
    /\ ByteLen(tex.mockbuffer) = SpriteBytes * tex.count

\* the step uses, on the layer at the id of l, a handle spawned from another layer
ForeignHandleOn(l) ==
  /\ ret'.op = "remove_sprite"
  /\ ret'.args[1].layer = l.id
  /\ ret'.args[1].gen # l.gen

\* C35: a layer whose slots are used only with handles spawned from it, each given
\* to remove_sprite at most once (remove_sprite consumes the handle), keeps its
\* slots accounted for: add_layer makes a layer with no slot, no free-list entry
\* and an empty host buffer, and every step but a remove_sprite with a handle of
\* another layer leaves each slot below the count either held by exactly one live
\* handle or exactly once on the free list, the free list below the count, and
\* the host buffer 160 bytes times the count long.
C35_SlotsAccounted ==
  [][\A l \in layers' :
       /\ l.id < Len(dyntexs') /\ dyntexs'[l.id + 1].gen = l.gen
       /\ l \notin layers => SlotsAccounted(dyntexs', handles', l)
       /\ (l \in layers /\ SlotsAccounted(dyntexs, handles, l) /\ ~ForeignHandleOn(l)) =>
            SlotsAccounted(dyntexs', handles', l)]_vars

\* a layer has three slots: one is held by a live handle and the two others were
\* released, the second of them by the last call
C35_Witness ==
  /\ ret.op = "remove_sprite"
  /\ ~panicked
  /\ \E l \in layers :
       /\ Tex(l.id).count = 3
       /\ Len(Tex(l.id).removed) = 2
       /\ SlotsAccounted(dyntexs, handles, l)
       /\ \E h \in BagToSet(handles) : h.layer = l.id /\ h.gen = l.gen

\* how many entries of the draw order are the tagged entry
Entries(order, tag) == Cardinality({i \in 1..Len(order) : order[i] = tag})

\* the entry names a layer of its kind's collection that the client has not removed
EntryOfLiveLayer(cmd) ==
  IF cmd.kind = "DynamicTexture"
  THEN /\ cmd.id < Len(dyntexs)
       /\ [id |-> cmd.id, gen |-> dyntexs[cmd.id + 1].gen] \in layers
  ELSE cmd.id < Len(strtexs)

\* C36: the draw order has exactly one entry for each layer that was added and not
\* removed and no entry for a removed layer, every entry's id is an index into the
\* collection of its kind, the draw loop of draw_frame goes through without an
\* index out of range, and get_layer finds every live layer.
C36_DrawOrderValid ==
  /\ \A tag \in Layerables : Entries(draw_order, tag) = 1 /\ GetLayer(draw_order, tag) # 0
  /\ \A i \in 1..Len(draw_order) : EntryOfLiveLayer(draw_order[i])
  /\ RecordLoop(draw_order, 1, streams, current_frame, perspective).ok

\* a frame was recorded while a removed layer is still in the collection, below
\* the one live layer, whose entry is the only one of the draw order
C36_Witness ==
  /\ pc = "submit"
  /\ Len(dyntexs) = 2
  /\ Cardinality(layers) = 1
  /\ draw_order = <<DynamicTexture(1)>>
  /\ \E e \in 1..Len(recorded) : recorded[e][1] = "draw" /\ recorded[e][2] = DynamicTexture(1)

\* C37: a recording of draw_frame leaves the streams of a hidden layer alone, no
\* upload and no decrement of a touch counter; a recording with the layer visible
\* uploads each touched stream to the buffer of the current in-flight frame and
\* takes 1 from its counter; and so a mutation made before or while the layer is
\* hidden has reached every in-flight buffer when its counter is back at 0, which
\* it is after as many frames drawn visible as there are in-flight frames.
C37_HiddenKeepsUploads ==
  [][\A l \in layers, s \in StreamSet :
       LET old == streams[l.gen][s]
           new == streams'[l.gen][s]
       IN /\ (Recorded /\ Tex(l.id).hidden) => new = old
          /\ (Recorded /\ ~Tex(l.id).hidden /\ old.touch # 0) =>
               /\ new.touch = old.touch - 1
               /\ new.gpu[current_frame + 1] = old.host
          /\ new.touch = 0 =>
               \A k \in 1..max_frames_in_flight : new.gpu[k] = new.host]_vars

\* the step is the draw loop of a draw_frame call, to its end or to a panic
RecordStep == pc = "record" /\ pc' # pc

\* C38: every queued write that draw_frame applies stays inside the image of its
\* streaming texture: no pixel outside width x height is stored to, by a Single or
\* by a Block write that reaches outside, and the process does not end in the
\* draw loop; and every queued write is applied to the image of the current
\* in-flight frame, whether the texture is hidden or not.
C38_WritesInsideImage ==
  [][RecordStep =>
       /\ ~panicked'
       /\ \A i \in 1..Len(strtexs) :
            /\ \A r \in strtexs'[i].image[current_frame + 1] : \A pixel \in r.pixels :
                 InsideImage(strtexs[i], pixel)
            /\ \A write \in QueuedWrites(strtexs[i], current_frame) :
                 \E r \in strtexs'[i].image[current_frame + 1] : r.id = write.id]_vars

\* the places of the events of the debug triangles in a recording
DebtrisPlaces(events) == {e \in 1..Len(events) : events[e][2] = DebugTriangles}

\* C39: in every recording of a frame the debug triangles, when they are not
\* hidden, are bound and drawn once, after every event of every layer of the draw
\* order, whatever add_layer, remove_layer and swap_layers made of the draw order;
\* when they are hidden the recording has no event of them.
C39_DebtrisDrawnLast ==
  [][Recorded =>
       IF debtris.hidden
       THEN DebtrisPlaces(recorded') = {}
       ELSE /\ Cardinality(EventPlaces(recorded', "debtris_draw")) = 1
            /\ EventPlaces(recorded', "debtris_draw") \subseteq DebtrisPlaces(recorded')
            /\ \A d \in DebtrisPlaces(recorded'), e \in 1..Len(recorded') :
                 e \notin DebtrisPlaces(recorded') => e < d
            /\ EventLayers(recorded', "draw") = VisibleEntries(draw_order, dyntexs, strtexs)]_vars

\* a frame was recorded from a draw order that swap_layers has turned round, with
\* the debug triangles shown: the draws of the two layers come first, in
\* the new order, and the debug triangles' draw is the last event
C39_Witness ==
  /\ pc = "submit"
  /\ ~debtris.hidden
  /\ Len(draw_order) = 2
  /\ draw_order[1].id > draw_order[2].id
  /\ EventLayers(recorded, "draw") = draw_order
  /\ recorded[Len(recorded)] = <<"debtris_draw", DebugTriangles>>

\* C40: whatever number of images the rebuilds of the swapchain got, every swap
\* image index an acquisition can return is an index into the images, the
\* framebuffers and the acquire semaphores, so that no acquisition that succeeds
\* ends in a panic at the index; and the in-flight frame index is an index into
\* the fences, the present semaphores and the command buffers.
C40_IndicesValid ==
  [][/\ \A swap_image \in SwapImages(swapchain') :
          /\ swap_image < swapchain'.images
          /\ swap_image < swapchain'.framebuffers
          /\ swap_image < swapchain'.acquire_image_semaphores
     /\ (pc = "acquire" /\ pc' # pc /\ call'.answer = <<"acquire", "ok">>) => ~panicked'
     /\ current_frame' < Len(frames_in_flight_fences')
     /\ current_frame' < swapchain'.present_wait_semaphores
     /\ current_frame' < swapchain'.command_buffers]_vars

\* the recording a draw_frame call entered in this state would make
Recording == RecordLoop(draw_order, 1, streams, current_frame, perspective)

\* the step is the rebuild of the swapchain
RebuildStep == pc = "recreate" /\ pc' = "restart"

\* C28: the rebuild of the swapchain leaves the draw order, the host buffers, slot
\* counts, free lists and hidden flags of the layers, the streams with their touch
\* counters, and the index of the in-flight frame as they were; so does the way
\* from the rebuild to the recording, and the recording after a rebuild is the one
\* the state before the rebuild would have given.
C28_RebuildKeepsData ==
  [][/\ (RebuildStep \/ (call.recreated /\ pc \in {"restart", "acquire", "fence"})) =>
          /\ draw_order' = draw_order
          /\ dyntexs' = dyntexs
          /\ strtexs' = strtexs
          /\ streams' = streams
          /\ current_frame' = current_frame
          /\ perspective' = perspective
          /\ debtris' = debtris
     /\ (Recorded /\ call.recreated) =>
          recorded' = FrameEvents(Recording.events, DebtrisEvents(debtris.hidden))]_vars

C28_Witness ==
  /\ pc = "submit"
  /\ call.recreated
  /\ current_frame # 0
  /\ EventPlaces(recorded, "draw") # {}
  /\ EventPlaces(recorded, "upload") # {}

\* VxDraw::new with n swapchain images: no layer of the other kind, the first
\* in-flight frame, the fences made signalled, nothing given to the GPU
InitFrame(n) ==
  /\ strtexs = <<>>
  /\ streams = NewStreams(n)
  /\ current_frame = 0
  /\ max_frames_in_flight = n
  /\ resized_since_last_render = FALSE
  /\ frames_in_flight_fences = [k \in 1..n |-> TRUE]
  /\ submitted = [k \in 1..n |-> 0]
  /\ pc = "idle"
  /\ recorded = <<>>
  /\ call = NoCall
  /\ nframes = 0
  /\ nrestarts = 0
  /\ ntouch = 0
  /\ perspective = Identity
  /\ debtris = [hidden |-> FALSE]
  /\ swapchain = NewSwapchain(n)

InitLayers ==
  /\ dyntexs = <<>>
  /\ draw_order = <<>>
  /\ gpu = {}
  /\ layers = {}
  /\ handles = EmptyBag
  /\ ret = [op |-> "new"]
  /\ panicked = FALSE
  /\ nlayers = 0
  /\ nadds = 0
  /\ nsets = 0

Init == InitLayers /\ InitFrame(MaxFramesInFlight)

\* the layers after add_layer, add, remove_layer, add_layer, add, add: the first
\* layer was the last of its collection and is gone, the second has its id, and
\* the handle of the first layer's sprite names slot 0 of the second, as does the
\* handle of the second layer's first sprite
ReusedId ==
  LET options == [depth_test |-> TRUE, fixed_perspective |-> NoPerspective]
      first == WriteAll(Grow(<<>>, 0), AddWrites(0, SpriteOther)).buf
      second == WriteAll(Grow(first, SpriteBytes), AddWrites(SpriteBytes, SpriteOther)).buf
  IN /\ dyntexs = << [NewTexture(options, 2) EXCEPT !.count = 2, !.mockbuffer = second] >>
     /\ draw_order = << DynamicTexture(0) >>
     /\ gpu = {2}
     /\ layers = {[id |-> 0, gen |-> 2]}
     /\ handles = SetToBag({[layer |-> 0, slot |-> 0, gen |-> 1],
                            [layer |-> 0, slot |-> 0, gen |-> 2],
                            [layer |-> 0, slot |-> 1, gen |-> 2]})
     /\ panicked = FALSE

\* the same, with the adds and the mutations to come counted from here
InitReusedId ==
  /\ ReusedId
  /\ ret = [op |-> "add", args |-> <<[id |-> 0, gen |-> 2], SpriteOther>>,
            result |-> [layer |-> 0, slot |-> 1, gen |-> 2]]
  /\ nlayers = 2
  /\ nadds = 0
  /\ nsets = 0
  /\ InitFrame(MaxFramesInFlight)

\* the layer and sprite lifecycle: add_layer, remove_layer, add, remove_sprite
NextArena ==
  \/ \E options \in LayerOptionsSet : AddLayer(options)
  \/ \E texture \in layers : RemoveLayer(texture)
  \/ \E texture \in layers, sprite \in Sprites : Add(texture, sprite)
  \/ \E handle \in BagToSet(handles) : RemoveSprite(handle)

SpecArena == Init /\ [][NextArena]_vars

\* the sprites of a layer that has the id of a removed one: add, and remove_sprite
\* with the handles of both layers
NextReusedId ==
  \/ \E texture \in layers, sprite \in Sprites : Add(texture, sprite)
  \/ \E handle \in BagToSet(handles) : RemoveSprite(handle)

SpecReusedId == InitReusedId /\ [][NextReusedId]_vars

\* the state after VxDraw::new with MaxFramesInFlight swapchain images, add_layer,
\* a mutation of the layer's position stream and one draw_frame that has returned
\* and that the GPU is done with: the stream is in the buffer of the first
\* in-flight frame, its counter is one lower, and the next in-flight frame is
\* the current one.  (The content of the host buffer is named MaxTouch + 1, a name
\* that no mutation to come gives.)
InitShown ==
  LET options == [depth_test |-> TRUE, fixed_perspective |-> NoPerspective]
      n == MaxFramesInFlight
  IN /\ dyntexs = << NewTexture(options, 1) >>
     /\ draw_order = << DynamicTexture(0) >>
     /\ gpu = {1}
     /\ layers = {[id |-> 0, gen |-> 1]}
     /\ handles = EmptyBag
     /\ ret = [op |-> "add_layer", args |-> <<options>>, result |-> [id |-> 0, gen |-> 1]]
     /\ panicked = FALSE
     /\ nlayers = 1
     /\ nadds = 0
     /\ nsets = 0
     /\ strtexs = <<>>
     /\ streams = [NewStreams(n) EXCEPT ![1]["posbuf"] =
                     [touch |-> n - 1, host |-> MaxTouch + 1,
                      gpu |-> [k \in 1..n |-> IF k = 1 THEN MaxTouch + 1 ELSE 0],
                      frames |-> 1]]
     /\ current_frame = NextFrameIndex(0, n)
     /\ max_frames_in_flight = n
     /\ resized_since_last_render = FALSE
     /\ frames_in_flight_fences = [k \in 1..n |-> TRUE]
     /\ submitted = [k \in 1..n |-> 0]
     /\ pc = "idle"
     /\ recorded = <<>>
     /\ call = NoCall
     /\ nframes = 0
     /\ nrestarts = 0
     /\ ntouch = 0
     /\ perspective = Identity
     /\ debtris = [hidden |-> FALSE]
     /\ swapchain = NewSwapchain(n)

\* a layer that is hidden and shown between the frames, and whose streams are
\* mutated, while the swapchain stays current
NextHidden ==
  \/ \E layer \in layers : Hide(layer)
  \/ \E layer \in layers : Show(layer)
  \/ \E g \in TouchableGens, s \in TouchedStreams : Touch(g, s)
  \/ DrawFrame
  \/ \E result \in NotStale : AcquireImage(result)
  \/ WaitFence
  \/ Record
  \/ Submit
  \/ \E result \in NotStale : Present(result)
  \/ Advance
  \/ \E k \in 1..max_frames_in_flight : GpuRetire(k)

SpecHidden == InitShown /\ [][NextHidden]_vars

\* the lifecycle and the setters
Next ==
  \/ \E options \in LayerOptionsSet : AddLayer(options)
  \/ \E texture \in layers : RemoveLayer(texture)
  \/ \E texture \in layers, sprite \in Sprites : Add(texture, sprite)
  \/ \E handle \in BagToSet(handles) : RemoveSprite(handle)
  \/ \E handle \in BagToSet(handles), position \in Positions : SetPosition(handle, position)
  \/ \E handle \in BagToSet(handles), rotation \in Rotations : SetRotation(handle, rotation)
  \/ \E handle \in BagToSet(handles), uv \in UvRects : SetUv(handle, uv[1], uv[2])
  \/ \E uvs \in Batches : SetUvs(uvs)

Spec == Init /\ [][Next]_vars

InitAnyFrames == InitLayers /\ \E n \in 1..MaxFramesInFlight : InitFrame(n)

\* the layers of both kinds and their draw order, and the frames drawn from them
\* while the swapchain stays current
NextOrder ==
  \/ \E options \in LayerOptionsSet : pc = "idle" /\ nlayers < MaxFrameLayers /\ AddLayer(options)
  \/ nlayers < MaxFrameLayers /\ AddStreamingLayer
  \/ \E texture \in layers : pc = "idle" /\ RemoveLayer(texture)
  \/ \E layer \in layers : Hide(layer)
  \/ \E layer \in layers : Show(layer)
  \/ \E layer1 \in Layerables, layer2 \in Layerables : SwapLayers(layer1, layer2)
  \/ DrawFrame
  \/ \E result \in NotStale : AcquireImage(result)
  \/ WaitFence
  \/ Record
  \/ Submit
  \/ \E result \in NotStale : Present(result)
  \/ Advance
  \/ \E k \in 1..max_frames_in_flight : GpuRetire(k)

SpecOrder == Init /\ [][NextOrder]_vars

\* layers whose streams are mutated, draw_frame step by step with every result of
\* the backend, and the GPU
NextSync ==
  \/ \E options \in LayerOptionsSet : pc = "idle" /\ nlayers < MaxFrameLayers /\ AddLayer(options)
  \/ nlayers < MaxFrameLayers /\ AddStreamingLayer
  \/ \E g \in TouchableGens, s \in TouchedStreams : Touch(g, s)
  \/ DrawFrame
  \/ \E result \in BackendResults : AcquireImage(result)
  \/ WindowResizedRecreateSwapchain
  \/ Restart
  \/ WaitFence
  \/ Record
  \/ Submit
  \/ \E result \in BackendResults : Present(result)
  \/ Advance
  \/ \E k \in 1..max_frames_in_flight : GpuRetire(k)

SpecSync == InitAnyFrames /\ [][NextSync]_vars

\* the steps of a draw_frame call that is in progress
CallStep ==
  \/ \E result \in BackendResults : AcquireImage(result)
  \/ WindowResizedRecreateSwapchain
  \/ Restart
  \/ WaitFence
  \/ Record
  \/ Submit
  \/ \E result \in BackendResults : Present(result)
  \/ Advance

\* the GPU comes to the end of a command buffer it was given
GpuStep == \E k \in 1..max_frames_in_flight : GpuRetire(k)

\* draw_frame against the backend and the GPU, with no layer: the host goes on
\* with a call as long as it can, the GPU finishes what it was given, and the
\* backend gives at most MaxRestarts stale results
NextLive ==
  \/ DrawFrame
  \/ \E result \in BackendResults : AcquireImage(result)
  \/ WindowResizedRecreateSwapchain
  \/ Restart
  \/ WaitFence
  \/ Record
  \/ Submit
  \/ \E result \in BackendResults : Present(result)
  \/ Advance
  \/ \E k \in 1..max_frames_in_flight : GpuRetire(k)

SpecLive ==
  InitAnyFrames /\ [][NextLive]_vars /\ WF_vars(CallStep) /\ WF_vars(GpuStep)



\* the calls that write to the records made so far
ncalls == nadds + nsets

FieldRects == UvRects \cup OwnUvRects

\* the batches of set_uvs the remaining calls allow, an entry counting as a call
FieldBatches ==
  UNION {[1..n -> BagToSet(handles) \X FieldRects] : n \in 0..(MaxAdds - ncalls)}

\* the fields of the records: layers that stay, and at most MaxAdds calls that
\* write to the records, add and every setter among them
NextFields ==
  \/ \E options \in LayerOptionsSet : nlayers < MaxFrameLayers /\ AddLayer(options)
  \/ \E texture \in layers, sprite \in AnySprite : ncalls < MaxAdds /\ Add(texture, sprite)
  \/ \E handle \in BagToSet(handles) : RemoveSprite(handle)
  \/ \E handle \in BagToSet(handles), position \in Positions :
       ncalls < MaxAdds /\ SetPosition(handle, position)
  \/ \E handle \in BagToSet(handles), rotation \in Rotations :
       ncalls < MaxAdds /\ SetRotation(handle, rotation)
  \/ \E handle \in BagToSet(handles), uv \in FieldRects :
       ncalls < MaxAdds /\ SetUv(handle, uv[1], uv[2])
  \/ \E uvs \in FieldBatches : SetUvs(uvs)
  \/ \E tex \in layers, dxdy \in Translations : ncalls < MaxAdds /\ SpriteTranslateAll(tex, dxdy)
  \/ \E tex \in layers, deg \in RotationDeltas : ncalls < MaxAdds /\ SpriteRotateAll(tex, deg)

SpecFields == Init /\ [][NextFields]_vars

\* writes of pixels for the claim about the queues: one pixel inside the image
QueuedPixels == {Single(1, 1)}

\* the write queues of the streaming textures and the frames that apply and clear
\* them, with every result of the backend
NextPixels ==
  \/ nlayers < MaxFrameLayers /\ AddStreamingLayer
  \/ \E i \in 1..Len(strtexs), write \in QueuedPixels : QueueWrite(i, write)
  \/ DrawFrame
  \/ \E result \in BackendResults : AcquireImage(result)
  \/ WindowResizedRecreateSwapchain
  \/ Restart
  \/ WaitFence
  \/ Record
  \/ Submit
  \/ \E result \in BackendResults : Present(result)
  \/ Advance
  \/ \E k \in 1..max_frames_in_flight : GpuRetire(k)

SpecPixels == InitAnyFrames /\ [][NextPixels]_vars

\* writes of pixels for the claim about the image: a pixel outside it, a block
\* inside it, and a block that begins inside it and reaches outside
BlockPixels == {Single(2, 0), Block(0, 0, 1, 1), Block(1, 1, 2, 1)}

\* a streaming texture that is written to, hidden and shown, and the frames that
\* apply the writes while the swapchain stays current
NextBlocks ==
  \/ nlayers < MaxAddLayer - MaxFrameLayers /\ AddStreamingLayer
  \/ \E i \in 1..Len(strtexs), write \in BlockPixels : QueueWrite(i, write)
  \/ \E i \in 1..Len(strtexs), hidden \in BOOLEAN : StrtexSetHidden(i, hidden)
  \/ DrawFrame
  \/ \E result \in NotStale : AcquireImage(result)
  \/ WaitFence
  \/ Record
  \/ Submit
  \/ \E result \in NotStale : Present(result)
  \/ Advance
  \/ \E k \in 1..max_frames_in_flight : GpuRetire(k)

SpecBlocks == InitAnyFrames /\ [][NextBlocks]_vars

\* the layers and their draw order, the debug triangles hidden and shown, and the
\* frames drawn from them while the swapchain stays current
NextDebtris ==
  \/ \E options \in LayerOptionsSet : pc = "idle" /\ nlayers < MaxFrameLayers /\ AddLayer(options)
  \/ \E texture \in layers : pc = "idle" /\ RemoveLayer(texture)
  \/ \E layer \in layers : Hide(layer)
  \/ \E layer1 \in Layerables, layer2 \in Layerables : SwapLayers(layer1, layer2)
  \/ \E hidden \in BOOLEAN : DebtrisSetHidden(hidden)
  \/ DrawFrame
  \/ \E result \in NotStale : AcquireImage(result)
  \/ WaitFence
  \/ Record
  \/ Submit
  \/ \E result \in NotStale : Present(result)
  \/ Advance
  \/ \E k \in 1..max_frames_in_flight : GpuRetire(k)

SpecDebtris == Init /\ [][NextDebtris]_vars

\* the numbers of swapchain images the surface may come to ask for
ImageCounts == 1..(MaxFramesInFlight + 1)

\* draw_frame with every result of the backend, the rebuilds of the swapchain and
\* a surface whose number of images changes
NextImages ==
  \/ \E image_count \in ImageCounts : SurfaceChanges(image_count)
  \/ DrawFrame
  \/ \E result \in BackendResults : AcquireImage(result)
  \/ WindowResizedRecreateSwapchain
  \/ Restart
  \/ WaitFence
  \/ Record
  \/ Submit
  \/ \E result \in BackendResults : Present(result)
  \/ Advance
  \/ \E k \in 1..max_frames_in_flight : GpuRetire(k)

SpecImages == InitAnyFrames /\ [][NextImages]_vars

\* the sprites of the dynamic-texture layers, as many adds as there may be layers,
\* and the frames drawn from them while the swapchain stays current
NextDraw ==
  \/ \E options \in LayerOptionsSet : pc = "idle" /\ nlayers < MaxFrameLayers /\ AddLayer(options)
  \/ \E texture \in layers, sprite \in Sprites :
       pc = "idle" /\ nadds < MaxFrameLayers /\ Add(texture, sprite)
  \/ \E handle \in BagToSet(handles) : pc = "idle" /\ RemoveSprite(handle)
  \/ \E layer \in layers : Hide(layer)
  \/ DrawFrame
  \/ \E result \in NotStale : AcquireImage(result)
  \/ WaitFence
  \/ Record
  \/ Submit
  \/ \E result \in NotStale : Present(result)
  \/ Advance
  \/ \E k \in 1..max_frames_in_flight : GpuRetire(k)

SpecDraw == Init /\ [][NextDraw]_vars

\* the layers, their sprites, and set_position and set_rotation with every handle,
\* those of removed layers too, at most MaxAdds calls that write to the records
NextSetters ==
  \/ \E options \in LayerOptionsSet : nlayers < MaxFrameLayers /\ AddLayer(options)
  \/ \E texture \in layers : RemoveLayer(texture)
  \/ \E texture \in layers, sprite \in Sprites : ncalls < MaxAdds /\ Add(texture, sprite)
  \/ \E handle \in BagToSet(handles), position \in Positions :
       ncalls < MaxAdds /\ SetPosition(handle, position)
  \/ \E handle \in BagToSet(handles), rotation \in Rotations :
       ncalls < MaxAdds /\ SetRotation(handle, rotation)

SpecSetters == Init /\ [][NextSetters]_vars

\* layers with and without a fixed perspective, set_perspective between the
\* frames, and draw_frame with every result of the backend
NextView ==
  \/ \E options \in ViewOptions : pc = "idle" /\ nlayers < MaxFrameLayers /\ AddLayer(options)
  \/ \E matrix \in Perspectives : SetPerspective(matrix)
  \/ DrawFrame
  \/ \E result \in BackendResults : AcquireImage(result)
  \/ WindowResizedRecreateSwapchain
  \/ Restart
  \/ WaitFence
  \/ Record
  \/ Submit
  \/ \E result \in BackendResults : Present(result)
  \/ Advance
  \/ \E k \in 1..max_frames_in_flight : GpuRetire(k)

SpecView == Init /\ [][NextView]_vars
====
